---- MODULE Spec2Model ----
(***************************************************************************)
(* The turn controller of the chat application: handleSendMessage and      *)
(* handleCancelStream of src/hooks/useChatHandler.ts, with the             *)
(* conversation store of useConversations (src/unnamed/part_000) and the   *)
(* handlers of App (src/unnamed/part_002) that call them.                  *)
(*                                                                         *)
(* A Send is an async function: it runs synchronously up to its next await *)
(* and is resumed when the awaited call settles.  Each action of the model *)
(* is one such synchronous block, or one event handler, or one timer       *)
(* callback.  React state (isLoading, conversations, ...) is read by a     *)
(* handler as of the last render, which is the state between two actions.  *)
(***************************************************************************)
EXTENDS Integers, Sequences, FiniteSets, TLC

\* ------------------------------------------------------------------ bounds
\* accepted calls of handleSendMessage in one behaviour
MaxSends == 2
\* chunks one model stream delivers before it ends
MaxChunks == 2
\* the largest token count a response reports
MaxTokens == 2

Turns == 1..MaxSends
\* conversation ids (crypto.randomUUID() is drawn from this pool, in order)
Convs == {1, 2}
NoConv == 0
NoTimer == 0

\* ------------------------------------------------------------------ text
\* A string is a sequence of characters; a fixed text the code writes is one
\* character of its own, so that no input text can contain it.
WS == {" ", "\n"}
StopNotice == <<"*Response generation stopped.*">>
ToolErrorText == <<"Sorry, I couldn't use that tool. Error: ">>
MoleculeErrorText == <<"Sorry, I couldn't find a 3D model for ">>
ErrorPrefix == <<"Sorry, I encountered an error:">>
MoleculePrompt == <<"I have successfully found and displayed the 3D model">>
TitleKeyword == <<"T", "I", "T", "L", "E", ":">>

RECURSIVE TrimStart(_)
TrimStart(s) ==
    IF s # <<>> /\ Head(s) \in WS THEN TrimStart(Tail(s)) ELSE s

RECURSIVE TrimEnd(_)
TrimEnd(s) ==
    IF s # <<>> /\ s[Len(s)] \in WS THEN TrimEnd(SubSeq(s, 1, Len(s) - 1)) ELSE s

\* String.prototype.trim
Trim(s) == TrimEnd(TrimStart(s))

StartsWith(s, p) == Len(s) >= Len(p) /\ SubSeq(s, 1, Len(p)) = p

Includes(s, c) == \E i \in 1..Len(s) : s[i] = c

\* the longest prefix of s without a newline: what [^\n]* matches at its start
RECURSIVE LineRun(_)
LineRun(s) ==
    IF s = <<>> \/ Head(s) = "\n" THEN <<>> ELSE <<Head(s)>> \o LineRun(Tail(s))

Drop(s, n) == SubSeq(s, n + 1, Len(s))

\* the number of leading whitespace characters: what a greedy \s* takes
LeadingWS(s) == Len(s) - Len(TrimStart(s))

\* displayContent.match(/^\s*TITLE:\s*([^\n]+)/): <<TRUE, group 1>> or
\* <<FALSE, "">>.  \s* is greedy and gives characters back until [^\n]+ can
\* match one character.
TitleMatch(s) ==
    LET body == TrimStart(s) IN
    IF ~StartsWith(body, TitleKeyword) THEN <<FALSE, <<>>>>
    ELSE LET rest == Drop(body, Len(TitleKeyword))
             ks == {k \in 0..LeadingWS(rest) : k < Len(rest) /\ rest[k + 1] # "\n"}
         IN IF ks = {} THEN <<FALSE, <<>>>>
            ELSE LET k == CHOOSE x \in ks : \A y \in ks : y <= x
                 IN <<TRUE, LineRun(Drop(rest, k))>>

\* displayContent.replace(/^\s*TITLE:\s*[^\n]*\n?/, '')
StripTitle(s) ==
    LET body == TrimStart(s) IN
    IF ~StartsWith(body, TitleKeyword) THEN s
    ELSE LET rest == TrimStart(Drop(body, Len(TitleKeyword)))
             after == Drop(rest, Len(LineRun(rest)))
         IN IF after # <<>> /\ Head(after) = "\n" THEN Tail(after) ELSE after

\* finalConversationState.messages.length % 20 === 0
SummaryEvery == 20

\* ------------------------------------------------------------------ messages
\* characters per token in estimateTokens
CharsPerToken == 4

\* estimateTokens rounding down
estimateTokensFloor(text) ==
    IF text = <<>> THEN 0 ELSE Len(text) \div CharsPerToken

\* estimateTokens: about four characters per token, rounded up
estimateTokens(text) ==
    IF text = <<>> THEN 0
    ELSE (Len(text) + CharsPerToken - 1) \div CharsPerToken

\* the token fields of a message: none, or inputTokens, outputTokens and
\* systemTokens (the empty set when undefined, else the set of its value)
NoTokens ==
    [present |-> FALSE, inputTokens |-> 0, outputTokens |-> 0, systemTokens |-> {}]

\* the fields the annotation after the stream writes to the last message
TokenAnnotation(usageMetadata, fullPrompt, toolWasUsed) ==
    LET totalPromptTokens == usageMetadata.promptTokenCount
        outputTokens == usageMetadata.candidatesTokenCount
        userTextTokens == estimateTokens(fullPrompt)
        displayInputTokens == IF toolWasUsed THEN totalPromptTokens ELSE userTextTokens
        systemTokens == IF toolWasUsed THEN 0 ELSE totalPromptTokens - userTextTokens
    IN [present |-> TRUE, inputTokens |-> displayInputTokens,
        outputTokens |-> outputTokens,
        systemTokens |-> IF systemTokens > 0 THEN {systemTokens} ELSE {}]

\* ChatMessage.  An optional field that is absent is FALSE (a flag) or "none".
Message(id, role, content) ==
    [id |-> id, role |-> role, content |-> content,
     images |-> FALSE, file |-> FALSE, url |-> FALSE,
     isPlanning |-> FALSE, toolInUse |-> FALSE,
     thoughts |-> "none", searchPlan |-> "none",
     isAnalyzingImage |-> FALSE, isAnalyzingFile |-> FALSE,
     analysisCompleted |-> FALSE, isLongToolUse |-> FALSE,
     isMoleculeRequest |-> FALSE, molecule |-> FALSE,
     thinkingDuration |-> FALSE, tokens |-> NoTokens,
     generationTime |-> FALSE, memoryUpdated |-> FALSE, sources |-> FALSE]

\* handleCancelStream's destructuring: the message without its transient fields
StripTransient(m) ==
    [m EXCEPT !.isAnalyzingImage = FALSE, !.isAnalyzingFile = FALSE,
              !.isPlanning = FALSE, !.toolInUse = FALSE,
              !.isLongToolUse = FALSE, !.thoughts = "none",
              !.searchPlan = "none"]

Last(s) == s[Len(s)]
LastIsModel(s) == s # <<>> /\ Last(s).role = "model"
SetLast(s, m) == [s EXCEPT ![Len(s)] = m]

\* ------------------------------------------------------------------ inputs
\* Tool without 'translator', which replaces the chat input by another view
Tools == {"smart", "webSearch", "thinking", "urlReader", "chemistry"}
Prompts == {<<>>, <<"q">>}
Attachments == {"none", "image", "file"}

\* What ChatInput.handleSend passes on: the prompt is trimmed, images and file
\* exclude each other, and a url is passed only with the urlReader tool.
SendInputs ==
    {i \in [prompt : Prompts, att : Attachments, url : BOOLEAN, tool : Tools] :
        i.url => i.tool = "urlReader"}

\* chunk.usageMetadata: absent, or the two counts of the response
NoUsage == [present |-> FALSE, promptTokenCount |-> 0, candidatesTokenCount |-> 0]
Usage(prompt, candidates) ==
    [present |-> TRUE, promptTokenCount |-> prompt, candidatesTokenCount |-> candidates]
Usages ==
    {NoUsage} \cup {Usage(p, c) : p \in 0..MaxTokens, c \in {1, MaxTokens}}

\* the JSON object the planning call returns; thoughts and searchPlan are TRUE
\* when the array is present and not empty
RawPlan(ws, url, mol, think, code, thoughts, searchPlan) ==
    [needsWebSearch |-> ws, isUrlReadRequest |-> url, isMoleculeRequest |-> mol,
     needsThinking |-> think, needsCodeContext |-> code,
     thoughts |-> thoughts, searchPlan |-> searchPlan]

RawPlans ==
    { RawPlan(ws, url, mol, think, code, thoughts, searchPlan) :
        ws \in BOOLEAN, url \in BOOLEAN, mol \in BOOLEAN, think \in BOOLEAN,
        code \in BOOLEAN, thoughts \in BOOLEAN, searchPlan \in BOOLEAN }

\* the fallback plan as it was before needsCodeContext was turned off in it
FallbackPlanWithCodeContext == RawPlan(TRUE, FALSE, FALSE, FALSE, TRUE, FALSE, FALSE)

\* the plan planResponse returns when its call fails
FallbackPlan == RawPlan(TRUE, FALSE, FALSE, FALSE, FALSE, FALSE, FALSE)

\* planResponse without the clearing of thinking on a tool-based request
planResponseKeepsThinking(ok, raw) ==
    IF ~ok THEN FallbackPlan ELSE raw

\* planResponse: ok is FALSE when the call rejects or its text is not JSON
planResponse(ok, raw) ==
    IF ~ok THEN FallbackPlan
    ELSE IF raw.needsWebSearch \/ raw.isUrlReadRequest \/ raw.isMoleculeRequest
         THEN [raw EXCEPT !.needsThinking = FALSE, !.thoughts = FALSE]
         ELSE raw

\* responses of the model on a first turn, with the title line the system
\* instruction asks for: "TITLE: xy \nb\nc" and "TITLE:x\n\nb"
TitledResponses ==
    { TitleKeyword \o <<" ", "x", "y", " ", "\n", "b", "\n", "c">>,
      TitleKeyword \o <<"x", "\n", "\n", "b">> }

\* the texts the next chunk can carry when the stream delivers one of the
\* responses, cut anywhere, and so far has delivered the text received
NextPieces(responses, received) ==
    UNION { {SubSeq(r, Len(received) + 1, m) : m \in (Len(received) + 1)..Len(r)} :
            r \in {x \in responses : StartsWith(x, received)} }

\* a whole fenced code block, as one character
CodeBlock == "<fenced code block>"
\* the texts one chunk of the model stream can carry
ChunkTexts == { <<"a", " ">>, <<CodeBlock>> }

Input(prompt, att, url, tool) ==
    [prompt |-> prompt, att |-> att, url |-> url, tool |-> tool]

\* the messages of n settled turns made with the input i: the user's message
\* and the model's answer "a", n times, with ids in the order of creation
History(i, n) ==
    [k \in 1..(2 * n) |->
        IF k % 2 = 1
        THEN [Message(k, "user", i.prompt) EXCEPT !.images = (i.att = "image"),
                                                  !.file = (i.att = "file"),
                                                  !.url = i.url]
        ELSE Message(k, "model", <<"a">>)]

\* stored histories: one settled turn, and as many as leave the conversation
\* two messages short of a multiple of SummaryEvery, or at one
SettledHistories ==
    { History(i, n) : i \in { Input(<<"q">>, "none", FALSE, "smart"),
                              Input(<<"q">>, "image", TRUE, "urlReader") },
                      n \in { 1, SummaryEvery \div 2 - 1, SummaryEvery \div 2 } }

\* The scope of Spec: Sends that overlap on one stored conversation, each
\* drawing its input and the planner's answer from these
InterleavedInputs ==
    { Input(<<>>, "none", FALSE, "smart"),
      Input(<<" ">>, "none", FALSE, "smart"),
      Input(<<"q">>, "none", FALSE, "smart"),
      Input(<<"q">>, "image", TRUE, "urlReader"),
      Input(<<>>, "file", FALSE, "chemistry") }

InterleavedPlans ==
    { RawPlan(FALSE, FALSE, FALSE, TRUE, FALSE, TRUE, FALSE),
      RawPlan(FALSE, FALSE, FALSE, FALSE, TRUE, FALSE, FALSE) }

InterleavedScope ==
    [sends |-> MaxSends, inputs |-> "interleaved", plans |-> "interleaved",
     planOk |-> {TRUE}, texts |-> {<<"a", " ">>}, usage |-> {Usage(1, 1)},
     chunks |-> 1, codeMemory |-> {1}, stored |-> {1}, active |-> {1},
     observeRejected |-> TRUE, logCalls |-> FALSE, responses |-> "free",
     histories |-> "empty",
     sources |-> {FALSE}, writers |-> FALSE, ltm |-> {<<>>},
     memoryResults |-> "none", retry |-> "toolbar"]

\* The scope of SpecTurn: one Send, with every input, every answer of the
\* planner and every outcome of the calls it awaits
TurnScope ==
    [sends |-> 1, inputs |-> "every", plans |-> "every",
     planOk |-> BOOLEAN, texts |-> ChunkTexts, usage |-> {NoUsage, Usage(1, 1)},
     chunks |-> MaxChunks, codeMemory |-> {0, 1}, stored |-> {1},
     active |-> {NoConv, 1}, observeRejected |-> FALSE, logCalls |-> TRUE,
     responses |-> "free", histories |-> "empty",
     sources |-> {FALSE}, writers |-> FALSE, ltm |-> {<<>>},
     memoryResults |-> "none", retry |-> "toolbar"]

\* ------------------------------------------------------------------ state
\* The scope of SpecTokens: one Send, with every input and every answer of a
\* planner call that succeeds, a stream of one chunk, and every usage report
TokenScope ==
    [TurnScope EXCEPT !.planOk = {TRUE}, !.texts = {<<"a", " ">>}, !.chunks = 1,
                      !.usage = Usages]

\* The scope of SpecTitle: one Send, the first turn of its conversation, whose
\* stream delivers a titled response cut into at most MaxPieces chunks
MaxPieces == 3
TitleScope ==
    [sends |-> 1, inputs |-> "interleaved", plans |-> "interleaved",
     planOk |-> {TRUE}, texts |-> {}, usage |-> {NoUsage},
     chunks |-> MaxPieces, codeMemory |-> {1}, stored |-> {1},
     active |-> {NoConv, 1}, observeRejected |-> FALSE, logCalls |-> TRUE,
     responses |-> "titled", histories |-> "empty",
     sources |-> {FALSE}, writers |-> FALSE, ltm |-> {<<>>},
     memoryResults |-> "none", retry |-> "toolbar"]

\* The scope of SpecChunks: the Send of SpecTitle, on the first turn of a
\* conversation or on its second, with chunks that carry grounding sources or
\* none
ChunkScope ==
    [TitleScope EXCEPT !.histories = "short", !.sources = BOOLEAN]

\* The scope of SpecWriters: Sends and retries of a plain prompt on a stored
\* conversation of SummaryEvery messages, and the background writers they leave
WriterScope ==
    [sends |-> MaxSends, inputs |-> "plain", plans |-> "plain",
     planOk |-> {TRUE}, texts |-> ChunkTexts, usage |-> {NoUsage},
     chunks |-> 1, codeMemory |-> {0}, stored |-> {1},
     active |-> {1}, observeRejected |-> FALSE, logCalls |-> FALSE,
     responses |-> "free", histories |-> "summarized",
     sources |-> {FALSE}, writers |-> TRUE, ltm |-> {<<"f">>, <<"f", "g">>},
     memoryResults |-> "every", retry |-> "toolbar"]

\* The scope of SpecSwitch: two stored conversations, the user switching
\* between them while Sends of a plain prompt run
SwitchScope ==
    [sends |-> MaxSends, inputs |-> "plain", plans |-> "interleaved",
     planOk |-> {TRUE}, texts |-> {<<"a", " ">>}, usage |-> {Usage(1, 1)},
     chunks |-> 1, codeMemory |-> {1}, stored |-> Convs,
     active |-> {1}, observeRejected |-> FALSE, logCalls |-> FALSE,
     responses |-> "free", histories |-> "empty",
     sources |-> {FALSE}, writers |-> FALSE, ltm |-> {<<>>},
     memoryResults |-> "none", retry |-> "toolbar"]

\* The scope of SpecStored: one Send or one retry at a time on a conversation
\* loaded from storage with settled turns, or on a new one
StoredScope ==
    [sends |-> 1, inputs |-> "interleaved", plans |-> "interleaved",
     planOk |-> {TRUE}, texts |-> {<<"a", " ">>}, usage |-> {Usage(1, 1)},
     chunks |-> 1, codeMemory |-> {1}, stored |-> {1},
     active |-> {NoConv, 1}, observeRejected |-> FALSE, logCalls |-> TRUE,
     responses |-> "free", histories |-> "settled",
     sources |-> {FALSE}, writers |-> FALSE, ltm |-> {<<>>},
     memoryResults |-> "none", retry |-> "toolbar"]

VARIABLES
    apiKey,                \* App: TRUE once a credential is configured
    isStopConfirmOpen,     \* App: the "Stop Generation" dialog is open
    conversations,         \* useConversations: id -> conversation
    activeConversationId,  \* useConversations: NoConv is null
    nextId,                \* the next message id crypto.randomUUID() yields
    isLoading, isThinking, isSearchingWeb, isLongToolUse, error,
    isCancelledRef,        \* the cancellation flag shared by all Sends
    responseTimerRef,      \* the turn whose elapsed-time interval the ref holds
    responseTimers,        \* the turns whose elapsed-time interval is live
    thinkingTimerRef,      \* the turn whose thinking interval the ref holds
    thinkingTimers,        \* the turns whose thinking interval is live
    codeMemory,            \* useMemory: the number of stored code snippets
    turn,                  \* the Send coroutines: locals and place of each
    dispatched,            \* background writers started: <<turn, writer, n>>
    pending,               \* background writers that have not returned yet
    ltm,                   \* useMemory: the facts of long-term memory, in order
    scope,                 \* the inputs this behaviour draws from; never changes
    rejected               \* the last step was a Send the entry guard rejected

vars == <<apiKey, isStopConfirmOpen, conversations, activeConversationId, nextId,
          isLoading, isThinking, isSearchingWeb, isLongToolUse, error,
          isCancelledRef, responseTimerRef, responseTimers,
          thinkingTimerRef, thinkingTimers, codeMemory, turn, dispatched,
          pending, ltm, scope, rejected>>

\* the variables of the chat handler and the store a rejected Send must not touch
handlerVars == <<conversations, activeConversationId, nextId, isLoading,
                 isThinking, isSearchingWeb, isLongToolUse, error,
                 isCancelledRef, responseTimerRef, responseTimers,
                 thinkingTimerRef, thinkingTimers, codeMemory, turn, dispatched,
                 pending, ltm>>

\* the inputs of Send and the answers of the planner the scope draws from
ScopeInputs ==
    CASE scope.inputs = "every" -> SendInputs
      [] scope.inputs = "plain" -> {Input(<<"q">>, "none", FALSE, "smart")}
      [] OTHER -> InterleavedInputs
ScopePlans ==
    CASE scope.plans = "every" -> RawPlans
      [] scope.plans = "plain" ->
            {RawPlan(FALSE, FALSE, FALSE, FALSE, FALSE, FALSE, FALSE)}
      [] OTHER -> InterleavedPlans

NoConversation == [exists |-> FALSE, title |-> <<"New Chat">>, messages |-> <<>>,
                   summaries |-> <<>>]
NewConversation == [NoConversation EXCEPT !.exists = TRUE]

\* a conversation loaded from storage with the messages h
StoredConversation(h) ==
    [NewConversation EXCEPT !.messages = h,
                            !.title = IF h = <<>> THEN @ ELSE <<"x">>]

\* the message lists the stored conversations of the scope can hold
ScopeHistories ==
    CASE scope.histories = "settled" -> SettledHistories
      [] scope.histories = "short" ->
            {<<>>, History(Input(<<"q">>, "none", FALSE, "smart"), 1)}
      [] scope.histories = "summarized" ->
            {History(Input(<<"q">>, "none", FALSE, "smart"), SummaryEvery \div 2)}
      [] OTHER -> {<<>>}

\* a coroutine of handleSendMessage that has not been called yet
\* (calls lists, in order, the network calls it has issued after the planner's:
\* "url", "molecule", "code", and the model call "search", "chat" or "chatThinking";
\* planFailed tells, until the stream is open, that the planner's call failed)
NoTurn ==
    [pc |-> "idle", conv |-> NoConv, prompt |-> <<>>, att |-> "none",
     url |-> FALSE, tool |-> "smart", isRetry |-> FALSE,
     isFirstTurnInConversation |-> FALSE, found |-> FALSE, history |-> <<>>,
     plan |-> FallbackPlan, isThinkingEnabled |-> FALSE,
     isWebSearchEnabled |-> FALSE, toolInUse |-> FALSE,
     isImageAnalysisRequest |-> FALSE, isFileAnalysisRequest |-> FALSE,
     longToolUseTimer |-> "none", finalPromptForModel |-> "prompt",
     finalModelResponse |-> <<>>,
     titleExtracted |-> FALSE, usageMetadata |-> NoUsage, chunks |-> 0,
     cancelled |-> FALSE, exit |-> "none", calls |-> <<>>, planFailed |-> FALSE,
     planningMessage |-> 0, ltm |-> <<>>, summaries |-> 0]

InFlight(t) == turn[t].pc \notin {"idle", "done"}

Messages(c) == conversations[c].messages

\* The state after the first render: no credential entered yet, the stored
\* conversations loaded (each an empty "New Chat"), one of them active or none
Start ==
    /\ apiKey = FALSE
    /\ isStopConfirmOpen = FALSE
    /\ \E h \in ScopeHistories :
          /\ conversations = [c \in Convs |->
                                  IF c \in scope.stored THEN StoredConversation(h)
                                  ELSE NoConversation]
          /\ nextId = Len(h) + 1
    /\ activeConversationId \in scope.active
    /\ isLoading = FALSE /\ isThinking = FALSE /\ isSearchingWeb = FALSE
    /\ isLongToolUse = FALSE /\ error = FALSE
    /\ isCancelledRef = FALSE
    /\ responseTimerRef = NoTimer /\ responseTimers = {}
    /\ thinkingTimerRef = NoTimer /\ thinkingTimers = {}
    /\ codeMemory \in scope.codeMemory
    /\ turn = [t \in Turns |-> NoTurn]
    /\ dispatched = {}
    /\ pending = {}
    /\ ltm \in scope.ltm
    /\ rejected = FALSE

Init == scope = InterleavedScope /\ Start

\* ------------------------------------------------------------------ store
\* the messages of conversation c in the handler state s
Msgs(s, c) == s.conversations[c].messages

\* the ids of the conversations not created yet
FreeConvs == {c \in Convs : ~conversations[c].exists}
FreshConv == CHOOSE c \in FreeConvs : \A d \in FreeConvs : c <= d

\* ------------------------------------------------------------------ handler state
\* The state the chat handler works on, as one record: a handler or a resumed
\* Send is a sequence of statements, each a function from this record to the
\* next, and the action commits the last one.
Cur ==
    [conversations |-> conversations, activeConversationId |-> activeConversationId,
     nextId |-> nextId, isLoading |-> isLoading, isThinking |-> isThinking,
     isSearchingWeb |-> isSearchingWeb, isLongToolUse |-> isLongToolUse,
     error |-> error,
     isCancelledRef |-> isCancelledRef, responseTimerRef |-> responseTimerRef,
     responseTimers |-> responseTimers, thinkingTimerRef |-> thinkingTimerRef,
     thinkingTimers |-> thinkingTimers, codeMemory |-> codeMemory, turn |-> turn,
     dispatched |-> dispatched, pending |-> pending, ltm |-> ltm]

\* The locals of a Send that no statement after its current await reads are
\* dropped, and a Send that has returned keeps only what the turn was.
Live(tr) ==
    CASE tr.pc = "done" ->
            [NoTurn EXCEPT !.pc = "done", !.conv = tr.conv,
                           !.cancelled = tr.cancelled, !.exit = tr.exit,
                           !.calls = tr.calls]
      [] tr.pc = "url" ->
            [tr EXCEPT !.tool = "smart", !.url = FALSE,
                       !.plan.needsWebSearch = FALSE, !.plan.needsThinking = FALSE,
                       !.plan.isUrlReadRequest = FALSE]
      [] tr.pc = "mol" ->
            [tr EXCEPT !.tool = "smart", !.url = FALSE,
                       !.plan.needsWebSearch = FALSE, !.plan.needsThinking = FALSE,
                       !.plan.isUrlReadRequest = FALSE, !.plan.isMoleculeRequest = FALSE]
      [] tr.pc \in {"code", "open"} ->
            [tr EXCEPT !.tool = "smart", !.url = FALSE, !.plan = NoTurn.plan]
      [] tr.pc = "stream" ->
            [tr EXCEPT !.tool = "smart", !.url = FALSE, !.plan = NoTurn.plan,
                       !.att = "none", !.planFailed = FALSE]
      [] OTHER -> tr

Commit(s) ==
    /\ conversations' = s.conversations
    /\ activeConversationId' = s.activeConversationId
    /\ nextId' = s.nextId
    /\ isLoading' = s.isLoading
    /\ isThinking' = s.isThinking
    /\ isSearchingWeb' = s.isSearchingWeb
    /\ isLongToolUse' = s.isLongToolUse
    /\ error' = s.error
    /\ isCancelledRef' = s.isCancelledRef
    /\ responseTimerRef' = s.responseTimerRef
    /\ responseTimers' = s.responseTimers
    /\ thinkingTimerRef' = s.thinkingTimerRef
    /\ thinkingTimers' = s.thinkingTimers
    /\ codeMemory' = s.codeMemory
    /\ turn' = [t \in Turns |-> Live(s.turn[t])]
    /\ dispatched' = s.dispatched
    /\ pending' = s.pending
    /\ ltm' = s.ltm

\* updateConversationMessages(c, prev => msgs): conversations.map leaves the
\* store as it is when no conversation has the id c
Upd(s, c, msgs) ==
    [s EXCEPT !.conversations[c].messages =
                  IF s.conversations[c].exists THEN msgs ELSE @]

clearThinkingIntervals(s) ==
    [s EXCEPT !.thinkingTimers = @ \ {s.thinkingTimerRef},
              !.thinkingTimerRef = NoTimer,
              !.isThinking = FALSE]

\* (the number elapsedTime shows is not part of the state)
stopResponseTimer(s) ==
    [s EXCEPT !.responseTimers = @ \ {s.responseTimerRef},
              !.responseTimerRef = NoTimer]

\* if (longToolUseTimer) clearTimeout(longToolUseTimer): a timeout that has
\* fired, or was never set, is left as it is
clearLongToolUseTimer(s, t) ==
    [s EXCEPT !.turn[t].longToolUseTimer = IF @ = "armed" THEN "cleared" ELSE @]

\* handleCancelStream without the trim() of the content
StoppedContentUntrimmed(content) ==
    IF content # <<>> THEN content \o <<"\n", "\n">> \o StopNotice
    ELSE StopNotice

\* the new content handleCancelStream gives the last model message
StoppedContent(content) ==
    IF Trim(content) # <<>> THEN Trim(content) \o <<"\n", "\n">> \o StopNotice
    ELSE StopNotice

\* the updater handleCancelStream passes to updateConversationMessages
CancelUpdater(prev, id) ==
    LET cleanedMessages == [k \in 1..Len(prev) |-> StripTransient(prev[k])] IN
    IF LastIsModel(cleanedMessages)
    THEN SetLast(cleanedMessages,
                 [Last(cleanedMessages) EXCEPT !.content = StoppedContent(@)])
    ELSE Append(cleanedMessages, Message(id, "model", StopNotice))

\* handleCancelStream
handleCancelStream(s) ==
    LET s1 == [s EXCEPT !.isCancelledRef = TRUE]
        s2 == stopResponseTimer(clearThinkingIntervals(s1))
        s3 == [s2 EXCEPT !.isLoading = FALSE, !.isSearchingWeb = FALSE,
                         !.isLongToolUse = FALSE]
        c == s.activeConversationId
        \* the turns this call cancels: those running on the active conversation
        s4 == [s3 EXCEPT !.turn = [t \in Turns |->
                  IF s.turn[t].pc \notin {"idle", "done"} /\ s.turn[t].conv = c
                  THEN [@[t] EXCEPT !.cancelled = TRUE] ELSE @[t]]]
    IN IF c = NoConv THEN s4
       ELSE [Upd(s4, c, LET prev == Msgs(s4, c) IN CancelUpdater(prev, s.nextId))
                EXCEPT !.nextId = IF LastIsModel(s.conversations[c].messages)
                                  THEN @ ELSE @ + 1]

\* the finally block of handleSendMessage, and its return
Finally(s, t) ==
    LET c == s.turn[t].conv
        s1 == clearLongToolUseTimer(s, t)
        s2 == IF s1.isCancelledRef THEN s1
              ELSE LET s1a == Upd(s1, c, [k \in 1..Len(Msgs(s1, c)) |->
                                [Msgs(s1, c)[k] EXCEPT !.isAnalyzingImage = FALSE,
                                                       !.isAnalyzingFile = FALSE]])
                   IN Upd(s1a, c, LET prev == Msgs(s1a, c) IN
                          IF LastIsModel(prev) /\ ~StartsWith(Last(prev).content, ErrorPrefix)
                          THEN SetLast(prev, [Last(prev) EXCEPT !.generationTime = TRUE])
                          ELSE prev)
        s3 == clearThinkingIntervals(stopResponseTimer(s2))
    IN [s3 EXCEPT !.isLoading = FALSE, !.isSearchingWeb = FALSE,
                  !.isLongToolUse = FALSE, !.isCancelledRef = FALSE,
                  !.turn[t].pc = "done"]

\* a return of handleSendMessage through its finally block; exit records the
\* path: "cancelled" (a cancellation check), "toolError", "error", "complete"
Returned(s, t, exit) == [Finally(s, t) EXCEPT !.turn[t].exit = exit]

\* the catch block without setError(friendlyError)
CatchWithoutSetError(s, t) ==
    LET c == s.turn[t].conv IN
    IF s.isCancelledRef THEN Returned(s, t, "cancelled")
    ELSE LET appends == s.conversations[c].messages # <<>>
                        /\ ~LastIsModel(s.conversations[c].messages)
             s2 == Upd(s, c, LET prev == Msgs(s, c) IN
                      IF prev = <<>> THEN prev
                      ELSE IF Last(prev).role = "user"
                           THEN Append(prev, Message(s.nextId, "model", ErrorPrefix))
                           ELSE SetLast(prev, [Last(prev) EXCEPT
                                    !.isPlanning = FALSE, !.toolInUse = FALSE,
                                    !.content = ErrorPrefix]))
         IN Returned([s2 EXCEPT !.nextId = IF appends THEN @ + 1 ELSE @], t, "error")

\* the catch block of handleSendMessage, then finally
Catch(s, t) ==
    LET c == s.turn[t].conv IN
    IF s.isCancelledRef THEN Returned(s, t, "cancelled")
    ELSE LET s1 == [s EXCEPT !.error = TRUE]
             appends == s.conversations[c].messages # <<>>
                        /\ ~LastIsModel(s.conversations[c].messages)
             s2 == Upd(s1, c, LET prev == Msgs(s1, c) IN
                      IF prev = <<>> THEN prev
                      ELSE IF Last(prev).role = "user"
                           THEN Append(prev, Message(s.nextId, "model", ErrorPrefix))
                           ELSE SetLast(prev, [Last(prev) EXCEPT
                                    !.isPlanning = FALSE, !.toolInUse = FALSE,
                                    !.content = ErrorPrefix]))
         IN Returned([s2 EXCEPT !.nextId = IF appends THEN @ + 1 ELSE @], t, "error")

\* handleToolError without its write of the apology to the last message
handleToolErrorWithoutText(s, t) ==
    LET s1 == [clearLongToolUseTimer(s, t) EXCEPT !.isLongToolUse = FALSE]
    IN Returned(stopResponseTimer([s1 EXCEPT !.isLoading = FALSE]), t, "toolError")

\* handleToolError, then the return through finally
handleToolError(s, t) ==
    LET c == s.turn[t].conv
        s1 == [clearLongToolUseTimer(s, t) EXCEPT !.isLongToolUse = FALSE]
        s2 == Upd(s1, c, LET prev == Msgs(s1, c) IN
                  IF prev = <<>> THEN prev
                  ELSE SetLast(prev, [Last(prev) EXCEPT !.toolInUse = FALSE,
                          !.isPlanning = FALSE, !.content = ToolErrorText]))
    IN Returned(stopResponseTimer([s2 EXCEPT !.isLoading = FALSE]), t, "toolError")

\* ------------------------------------------------------------------ handleSendMessage
\* the entry guard without its test of the credential
SendGuardWithoutKey(i) ==
    \/ Trim(i.prompt) = <<>> /\ i.att = "none" /\ ~i.url
    \/ isLoading

\* the entry guard: TRUE when the call returns at once
SendGuard(i) ==
    \/ Trim(i.prompt) = <<>> /\ i.att = "none" /\ ~i.url
    \/ isLoading
    \/ ~apiKey

\* userMessageParts is empty: no image, no file and an empty prompt for the model
NoMessageParts(s, t) ==
    /\ s.turn[t].att = "none"
    /\ s.turn[t].finalPromptForModel = "prompt"
    /\ s.turn[t].prompt = <<>>

\* the log of issued calls after one more call (kept where the scope logs calls)
Logged(calls, call) == IF scope.logCalls THEN Append(calls, call) ELSE calls

\* the model call the turn issues: generateContentStream with googleSearch, or
\* startChatSession(modelToUse, isThinkingEnabled, ...).sendMessageStream
ModelCall(tr) ==
    IF tr.isWebSearchEnabled THEN "search"
    ELSE IF tr.isThinkingEnabled THEN "chatThinking" ELSE "chat"

\* from userMessageParts to the await of the stream
OpenStream(s, t) ==
    IF NoMessageParts(s, t) THEN Catch(s, t)
    ELSE [s EXCEPT !.turn[t].pc = "open",
                   !.turn[t].calls = Logged(@, ModelCall(s.turn[t]))]

\* from the clearing of the planning state to the next await
AfterTools(s, t) ==
    LET c == s.turn[t].conv
        tr == s.turn[t]
        s1 == Upd(s, c, LET prev == Msgs(s, c) IN
                 IF prev # <<>> /\ (Last(prev).isPlanning \/ Last(prev).toolInUse)
                 THEN SetLast(prev, [Last(prev) EXCEPT !.isPlanning = FALSE,
                         !.toolInUse = FALSE,
                         !.thoughts = IF tr.plan.thoughts THEN "steps" ELSE "empty"])
                 ELSE prev)
        s2 == IF tr.isThinkingEnabled /\ tr.plan.thoughts
              THEN [s1 EXCEPT !.isThinking = TRUE, !.thinkingTimerRef = t,
                              !.thinkingTimers = @ \cup {t}]
              ELSE s1
        s3 == IF tr.isWebSearchEnabled
              THEN LET s2w == [s2 EXCEPT !.isSearchingWeb = TRUE] IN
                   IF tr.plan.searchPlan
                   THEN Upd(s2w, c, LET prev == Msgs(s2w, c) IN
                           IF LastIsModel(prev)
                           THEN SetLast(prev, [Last(prev) EXCEPT !.searchPlan = "steps"])
                           ELSE prev)
                   ELSE s2w
              ELSE s2
    IN IF tr.plan.needsCodeContext /\ s.codeMemory > 0
       THEN [s3 EXCEPT !.turn[t].pc = "code", !.turn[t].calls = Logged(@, "code")]
       ELSE OpenStream(s3, t)

\* if (plan.isMoleculeRequest): up to the await of getMoleculeData
MoleculeStep(s, t) ==
    IF s.turn[t].plan.isMoleculeRequest
    THEN [Upd(s, s.turn[t].conv, LET prev == Msgs(s, s.turn[t].conv) IN
                IF prev = <<>> THEN prev
                ELSE SetLast(prev, [Last(prev) EXCEPT !.isPlanning = FALSE,
                                                      !.isMoleculeRequest = TRUE]))
            EXCEPT !.turn[t].pc = "mol",
                   !.turn[t].calls = Logged(@, "molecule")]
    ELSE AfterTools(s, t)

\* toolOverrides without the entry of the urlReader tool
toolOverridesWithoutUrlReader(tr) ==
    CASE tr.tool = "thinking" ->
            [tr EXCEPT !.isThinkingEnabled = TRUE, !.isWebSearchEnabled = FALSE,
                       !.plan.isUrlReadRequest = FALSE]
      [] tr.tool = "webSearch" ->
            [tr EXCEPT !.isWebSearchEnabled = TRUE, !.isThinkingEnabled = FALSE,
                       !.plan.isUrlReadRequest = FALSE, !.isImageAnalysisRequest = FALSE]
      [] tr.tool = "chemistry" ->
            [tr EXCEPT !.plan.isMoleculeRequest = TRUE, !.isWebSearchEnabled = FALSE,
                       !.isThinkingEnabled = FALSE]
      [] OTHER -> tr

\* toolOverrides[selectedTool](), on the locals of the turn
toolOverrides(tr) ==
    CASE tr.tool = "urlReader" ->
            [tr EXCEPT !.plan.isUrlReadRequest = TRUE, !.isWebSearchEnabled = FALSE,
                       !.isThinkingEnabled = FALSE, !.isImageAnalysisRequest = FALSE]
      [] tr.tool = "thinking" ->
            [tr EXCEPT !.isThinkingEnabled = TRUE, !.isWebSearchEnabled = FALSE,
                       !.plan.isUrlReadRequest = FALSE]
      [] tr.tool = "webSearch" ->
            [tr EXCEPT !.isWebSearchEnabled = TRUE, !.isThinkingEnabled = FALSE,
                       !.plan.isUrlReadRequest = FALSE, !.isImageAnalysisRequest = FALSE]
      [] tr.tool = "chemistry" ->
            [tr EXCEPT !.plan.isMoleculeRequest = TRUE, !.isWebSearchEnabled = FALSE,
                       !.isThinkingEnabled = FALSE]
      [] OTHER -> tr

\* prev.map(m => m.id === prev[prev.length - 2]?.id ? flagged(m) : m)
MarkSecondLast(prev, flag) ==
    [k \in 1..Len(prev) |->
        IF Len(prev) >= 2 /\ prev[k].id = prev[Len(prev) - 1].id
        THEN [prev[k] EXCEPT ![flag] = TRUE]
        ELSE prev[k]]

\* the locals of the turn once the plan is in and the overrides are applied
PlannedTurn(tr, plan) ==
    LET t1 == toolOverrides([tr EXCEPT !.plan = plan,
                                       !.isThinkingEnabled = plan.needsThinking,
                                       !.isWebSearchEnabled = plan.needsWebSearch])
        t2 == [t1 EXCEPT !.isImageAnalysisRequest = (tr.att = "image"),
                         !.isFileAnalysisRequest = (tr.att = "file")]
    IN IF t2.isImageAnalysisRequest
       THEN [t2 EXCEPT !.isThinkingEnabled = FALSE, !.plan.thoughts = FALSE]
       ELSE t2

\* the Send resumed after planResponse, up to its next await or its return
AfterPlan(s, t, plan) ==
    IF s.isCancelledRef THEN Returned(s, t, "cancelled")
    ELSE
    LET c == s.turn[t].conv
        tr == PlannedTurn(s.turn[t], plan)
        s1 == [s EXCEPT !.turn[t] = tr]
        s2 == IF tr.isImageAnalysisRequest
              THEN Upd(s1, c, MarkSecondLast(Msgs(s1, c), "isAnalyzingImage"))
              ELSE s1
        s3 == IF tr.isFileAnalysisRequest
              THEN Upd(s2, c, MarkSecondLast(Msgs(s2, c), "isAnalyzingFile"))
              ELSE s2
        s4 == [s3 EXCEPT !.turn[t].longToolUseTimer = "armed"]
    IN IF tr.plan.isUrlReadRequest
       THEN LET s5 == [s4 EXCEPT !.turn[t].toolInUse = TRUE] IN
            IF ~tr.url THEN handleToolError(s5, t)
            ELSE [Upd(s5, c, LET prev == Msgs(s5, c) IN
                        IF prev = <<>> THEN prev
                        ELSE SetLast(prev, [Last(prev) EXCEPT !.isPlanning = FALSE,
                                                              !.toolInUse = TRUE]))
                    EXCEPT !.turn[t].pc = "url",
                           !.turn[t].calls = Logged(@, "url")]
       ELSE MoleculeStep(s4, t)

\* the Send resumed after fetchAndParseUrlContent
AfterUrl(s, t, ok) ==
    IF ~ok THEN handleToolError(s, t)
    ELSE IF s.isCancelledRef THEN Returned(s, t, "cancelled")
    ELSE MoleculeStep([s EXCEPT !.turn[t].finalPromptForModel = "url"], t)

\* the Send resumed after getMoleculeData
AfterMolecule(s, t, ok) ==
    LET c == s.turn[t].conv IN
    IF ~ok
    THEN LET s1 == Upd(s, c, LET prev == Msgs(s, c) IN
                      IF prev = <<>> THEN prev
                      ELSE SetLast(prev, [Last(prev) EXCEPT !.isMoleculeRequest = FALSE,
                              !.isPlanning = FALSE, !.content = MoleculeErrorText]))
         IN Returned(stopResponseTimer([s1 EXCEPT !.isLoading = FALSE]), t, "toolError")
    ELSE IF s.isCancelledRef THEN Returned(s, t, "cancelled")
    ELSE LET s1 == Upd(s, c, LET prev == Msgs(s, c) IN
                      IF prev = <<>> THEN prev
                      ELSE SetLast(prev, [Last(prev) EXCEPT !.isMoleculeRequest = FALSE,
                                                            !.molecule = TRUE]))
         IN AfterTools([s1 EXCEPT !.turn[t].finalPromptForModel = "molecule",
                                  !.turn[t].isWebSearchEnabled = FALSE,
                                  !.turn[t].isThinkingEnabled = FALSE], t)

\* the Send resumed after findRelevantCode
AfterCode(s, t, ok) ==
    IF ~ok THEN Catch(s, t)
    ELSE IF s.isCancelledRef THEN Returned(s, t, "cancelled")
    ELSE OpenStream(s, t)

\* the Send resumed after generateContentStream or sendMessageStream
AfterOpen(s, t, ok) ==
    IF ~ok THEN Catch(s, t)
    ELSE
    LET c == s.turn[t].conv
        tr == s.turn[t]
        s1 == [clearLongToolUseTimer(s, t) EXCEPT !.isLongToolUse = FALSE]
        s2 == IF tr.isThinkingEnabled THEN clearThinkingIntervals(s1) ELSE s1
        s3 == IF tr.isWebSearchEnabled THEN [s2 EXCEPT !.isSearchingWeb = FALSE] ELSE s2
        s4 == IF tr.isImageAnalysisRequest
              THEN Upd(s3, c, [k \in 1..Len(Msgs(s3, c)) |->
                       LET m == Msgs(s3, c)[k] IN
                       IF m.role = "user" /\ m.isAnalyzingImage
                       THEN [m EXCEPT !.isAnalyzingImage = FALSE,
                                      !.analysisCompleted = TRUE]
                       ELSE m])
              ELSE s3
        s5 == IF tr.isFileAnalysisRequest
              THEN Upd(s4, c, [k \in 1..Len(Msgs(s4, c)) |->
                       [Msgs(s4, c)[k] EXCEPT !.isAnalyzingFile = FALSE]])
              ELSE s4
    IN [s5 EXCEPT !.turn[t].pc = "stream"]

\* displayContent.length > 50: the text after which a title is no longer awaited
TitleGiveUpLength == 50

\* TitleStep with titleExtracted set by the first match, newline or not
TitleStepExtractsAtOnce(d, titleExtracted) ==
    IF titleExtracted THEN [commit |-> FALSE, title |-> <<>>, extracted |-> TRUE]
    ELSE LET m == TitleMatch(d) IN
         IF m[1] /\ m[2] # <<>>
         THEN [commit |-> TRUE, title |-> Trim(m[2]), extracted |-> TRUE]
         ELSE [commit |-> FALSE, title |-> <<>>,
               extracted |-> Len(d) > TitleGiveUpLength /\ ~StartsWith(d, TitleKeyword)]

\* the title the chunk commits (<<TRUE, title>>) and the new titleExtracted,
\* for the accumulated text d of a first turn
TitleStep(d, titleExtracted) ==
    IF titleExtracted THEN [commit |-> FALSE, title |-> <<>>, extracted |-> TRUE]
    ELSE LET m == TitleMatch(d) IN
         IF m[1] /\ m[2] # <<>>
         THEN [commit |-> TRUE, title |-> Trim(m[2]), extracted |-> Includes(d, "\n")]
         ELSE [commit |-> FALSE, title |-> <<>>,
               extracted |-> Len(d) > TitleGiveUpLength /\ ~StartsWith(d, TitleKeyword)]

CountOf(text, c) == Cardinality({k \in 1..Len(text) : text[k] = c})

\* the (user, model) pairs of the last 20 messages of the snapshot
ConvosToSummarize(msgs) ==
    LET recent == SubSeq(msgs, Len(msgs) - SummaryEvery + 1, Len(msgs)) IN
    {k \in 1..Len(recent) : k % 2 = 1 /\ recent[k].role = "user"
                            /\ k + 1 <= Len(recent) /\ recent[k + 1].role = "model"}

\* convosToSummarize, in order, as the ids of each (user, model) pair
ConvoPairs(msgs) ==
    LET recent == SubSeq(msgs, Len(msgs) - SummaryEvery + 1, Len(msgs))
        ks == ConvosToSummarize(msgs)
    IN [j \in 1..Cardinality(ks) |->
           LET k == CHOOSE x \in ks : Cardinality({y \in ks : y < x}) = j - 1
           IN <<recent[k].id, recent[k + 1].id>>]

\* updatedMemories.forEach: each update whose old_memory is found replaces
\* its first occurrence and marks the memory as modified
RECURSIVE ApplyUpdates(_, _)
ApplyUpdates(list, updates) ==
    IF updates = <<>> THEN [ltm |-> list, memoryWasModified |-> FALSE]
    ELSE LET update == Head(updates)
             found == {k \in 1..Len(list) : list[k] = update.old_memory}
             index == CHOOSE k \in found : \A j \in found : k <= j
             next == IF found = {} THEN list
                     ELSE [list EXCEPT ![index] = update.new_memory]
             rest == ApplyUpdates(next, Tail(updates))
         IN [ltm |-> rest.ltm,
             memoryWasModified |-> rest.memoryWasModified \/ found # {}]

\* the then-callback of updateMemory up to setLtm: ltmAfterUpdates and
\* memoryWasModified, computed from the ltm the Send was created with
MemoryUpdate(list, memoryResult) ==
    LET updated == ApplyUpdates(list, memoryResult.updatedMemories)
        Absent(mem) == \A k \in 1..Len(updated.ltm) : updated.ltm[k] # mem
        uniqueNewMemories == SelectSeq(memoryResult.newMemories, Absent)
    IN [ltm |-> updated.ltm \o uniqueNewMemories,
        memoryWasModified |-> updated.memoryWasModified \/ uniqueNewMemories # <<>>]

\* toolUsed without its test of isWebSearchEnabled
toolUsedWithoutWebSearch(tr) ==
    tr.toolInUse \/ tr.isImageAnalysisRequest \/ tr.isFileAnalysisRequest

\* toolUsed, as the annotation computes it from the locals of the turn
toolUsed(tr) ==
    \/ tr.toolInUse \/ tr.isImageAnalysisRequest
    \/ tr.isFileAnalysisRequest \/ tr.isWebSearchEnabled

\* after the for-await loop: token annotation and the background writers
AfterLoop(s, t) ==
    LET c == s.turn[t].conv
        tr == s.turn[t]
        s1 == IF tr.usageMetadata.present /\ ~s.isCancelledRef
              THEN Upd(s, c, LET prev == Msgs(s, c) IN
                      IF LastIsModel(prev)
                      THEN SetLast(prev, [Last(prev) EXCEPT !.tokens =
                               TokenAnnotation(tr.usageMetadata, tr.prompt, toolUsed(tr))])
                      ELSE prev)
              ELSE s
        finalCleanedResponse == StripTitle(tr.finalModelResponse)
        summary == IF Len(tr.history) > 0 /\ Len(tr.history) % SummaryEvery = 0
                      /\ ConvosToSummarize(tr.history) # {}
                   THEN {<<t, "summary", 1>>} ELSE {}
        code == {<<t, "code", k>> : k \in 1..CountOf(finalCleanedResponse, CodeBlock)}
        memory == IF Trim(finalCleanedResponse) # <<>>
                  THEN {<<t, "memory", 1>>} ELSE {}
        writers == IF scope.writers
                   THEN {[turn |-> t, kind |-> w[2], n |-> w[3], conv |-> c,
                          ltm |-> tr.ltm, startingSerialNumber |-> tr.summaries,
                          convos |-> IF w[2] = "summary" THEN ConvoPairs(tr.history)
                                     ELSE <<>>] :
                         w \in summary \cup code \cup memory}
                   ELSE {}
        s2 == IF tr.found /\ ~s.isCancelledRef
              THEN [s1 EXCEPT !.dispatched = @ \cup summary \cup code \cup memory,
                              !.pending = @ \cup writers]
              ELSE s1
    IN Returned(s2, t, IF s.isCancelledRef THEN "cancelled" ELSE "complete")

\* the iteration of the loop, were it to append the text shown to the content
OnChunkAppending(s, t, text, usage, sources) ==
    IF s.isCancelledRef THEN AfterLoop(s, t)
    ELSE
    LET c == s.turn[t].conv
        tr == s.turn[t]
        full == tr.finalModelResponse \o text
        ts == TitleStep(full, tr.titleExtracted)
        displayContent == IF tr.isFirstTurnInConversation THEN StripTitle(full) ELSE full
        s1 == [s EXCEPT !.turn[t].finalModelResponse = full,
                        !.turn[t].usageMetadata = IF usage.present THEN usage ELSE @,
                        !.turn[t].chunks = @ + 1,
                        !.turn[t].titleExtracted =
                            IF tr.isFirstTurnInConversation THEN ts.extracted ELSE @]
        s2 == IF tr.isFirstTurnInConversation /\ ts.commit /\ s.conversations[c].exists
              THEN [s1 EXCEPT !.conversations[c].title = ts.title]
              ELSE s1
        appends == ~LastIsModel(s.conversations[c].messages)
        s3 == Upd(s2, c, LET prev == Msgs(s2, c) IN
                 IF LastIsModel(prev)
                 THEN SetLast(prev, [Last(prev) EXCEPT !.content = @ \o displayContent,
                                                       !.sources = sources,
                                                       !.isPlanning = FALSE])
                 ELSE Append(prev, [Message(s.nextId, "model", displayContent)
                                       EXCEPT !.sources = sources]))
    IN [s3 EXCEPT !.nextId = IF appends THEN @ + 1 ELSE @]

\* one iteration of the for-await loop, for a chunk with this text
OnChunk(s, t, text, usage, sources) ==
    IF s.isCancelledRef THEN AfterLoop(s, t)
    ELSE
    LET c == s.turn[t].conv
        tr == s.turn[t]
        full == tr.finalModelResponse \o text
        ts == TitleStep(full, tr.titleExtracted)
        displayContent == IF tr.isFirstTurnInConversation THEN StripTitle(full) ELSE full
        s1 == [s EXCEPT !.turn[t].finalModelResponse = full,
                        !.turn[t].usageMetadata = IF usage.present THEN usage ELSE @,
                        !.turn[t].chunks = @ + 1,
                        !.turn[t].titleExtracted =
                            IF tr.isFirstTurnInConversation THEN ts.extracted ELSE @]
        s2 == IF tr.isFirstTurnInConversation /\ ts.commit /\ s.conversations[c].exists
              THEN [s1 EXCEPT !.conversations[c].title = ts.title]
              ELSE s1
        appends == ~LastIsModel(s.conversations[c].messages)
        s3 == Upd(s2, c, LET prev == Msgs(s2, c) IN
                 IF LastIsModel(prev)
                 THEN SetLast(prev, [Last(prev) EXCEPT !.content = displayContent,
                                                       !.sources = sources,
                                                       !.isPlanning = FALSE])
                 ELSE Append(prev, [Message(s.nextId, "model", displayContent)
                                       EXCEPT !.sources = sources]))
    IN [s3 EXCEPT !.nextId = IF appends THEN @ + 1 ELSE @]

\* ------------------------------------------------------------------ actions
IdleTurns == {t \in 1..scope.sends : turn[t].pc = "idle"}

\* the messages an accepted call appends: the user's message and the model
\* stub in planning state, or the stub alone on a retry
SentMessagesWithUserMessage(i, isRetry, id) ==
    << [Message(id + 1, "user", i.prompt) EXCEPT
           !.images = (i.att = "image"), !.file = (i.att = "file"),
           !.url = i.url],
       [Message(id, "model", <<>>) EXCEPT !.isPlanning = TRUE] >>

SentMessages(i, isRetry, id) ==
    LET planningMessage == [Message(id, "model", <<>>) EXCEPT !.isPlanning = TRUE]
        newUserMessage == [Message(id + 1, "user", i.prompt) EXCEPT
                               !.images = (i.att = "image"),
                               !.file = (i.att = "file"), !.url = i.url]
    IN IF ~isRetry THEN <<newUserMessage, planningMessage>>
       ELSE <<planningMessage>>

\* handleSendMessage past its guard, up to the first await, called in the
\* handler state s0; the conversation it reads is the one of the last render
SendAccepted(s0, i, isRetry) ==
    /\ IdleTurns # {}
    /\ activeConversationId = NoConv => FreeConvs # {}
    /\ LET t == CHOOSE x \in IdleTurns : \A y \in IdleTurns : x <= y
           isNew == activeConversationId = NoConv
           c == IF isNew THEN FreshConv ELSE activeConversationId
           history == IF isNew THEN <<>> ELSE conversations[c].messages
           s1 == IF isNew
                 THEN [s0 EXCEPT !.conversations[c] = NewConversation,
                                 !.activeConversationId = c]
                 ELSE s0
           s2 == [s1 EXCEPT !.error = FALSE, !.isLoading = TRUE,
                            !.isCancelledRef = FALSE,
                            !.responseTimerRef = t,
                            !.responseTimers = @ \cup {t},
                            !.nextId = @ + 2]
           s3 == Upd(s2, c, LET prev == Msgs(s2, c)
                            IN prev \o SentMessages(i, isRetry, nextId))
       IN Commit([s3 EXCEPT !.turn[t] =
              [NoTurn EXCEPT !.pc = "plan", !.conv = c, !.prompt = i.prompt,
                             !.att = i.att, !.url = i.url, !.tool = i.tool,
                             !.isFirstTurnInConversation = (history = <<>>),
                             !.found = ~isNew, !.history = history,
                             !.planningMessage = nextId, !.ltm = ltm,
                             !.summaries = IF isNew THEN 0
                                           ELSE Len(conversations[c].summaries)]])
    /\ rejected' = FALSE
    /\ UNCHANGED <<apiKey, isStopConfirmOpen, scope>>

\* handleSendMessage(prompt, images, file, url): the call, up to the first await
Send(i) ==
    IF SendGuard(i)
    THEN /\ rejected' = scope.observeRejected
         /\ UNCHANGED <<apiKey, isStopConfirmOpen, scope, handlerVars>>
    ELSE SendAccepted(Cur, i, FALSE)

\* handleRetry's loop: the index of the most recent model message, 0 if none
lastModelMessageIndex(msgs) ==
    IF \E k \in 1..Len(msgs) : msgs[k].role = "model"
    THEN CHOOSE k \in 1..Len(msgs) :
            /\ msgs[k].role = "model"
            /\ \A j \in (k + 1)..Len(msgs) : msgs[j].role # "model"
    ELSE 0

\* the call the user message m is re-sent with, under the selected tool
ResentInput(m, tool) ==
    Input(m.content,
          IF m.images THEN "image" ELSE IF m.file THEN "file" ELSE "none",
          m.url, tool)

\* the message's toolbar, which holds the retry button, is rendered
showToolbar(m) == ~isLoading /\ m.content # <<>>

\* handleRetry: drop the most recent model message and what follows it, then
\* handleSendMessage with the preceding user message and isRetry = true.  The
\* handler has no guard of its own; under the label "toolbar" it is called
\* from the states where the retry button is rendered and a key is configured
Retry(tool) ==
    /\ scope.retry = "toolbar" => apiKey
    /\ activeConversationId # NoConv
    /\ LET c == activeConversationId
           msgs == conversations[c].messages
           k == lastModelMessageIndex(msgs)
       IN /\ Len(msgs) # 0
          /\ k > 1
          /\ msgs[k - 1].role = "user"
          /\ scope.retry = "toolbar" => showToolbar(msgs[k])
          /\ LET i == ResentInput(msgs[k - 1], tool)
                 s0 == Upd(Cur, c, SubSeq(msgs, 1, k - 1))
             IN IF SendGuard(i)
                THEN /\ Commit(s0)
                     /\ rejected' = scope.observeRejected
                     /\ UNCHANGED <<apiKey, isStopConfirmOpen, scope>>
                ELSE SendAccepted(s0, i, TRUE)

\* a step of a running Send: the commit of the handler state s
Resume(s) ==
    /\ Commit(s)
    /\ rejected' = FALSE
    /\ UNCHANGED <<apiKey, isStopConfirmOpen, scope>>

PlanReturns(t) ==
    /\ turn[t].pc = "plan"
    /\ \E ok \in scope.planOk, raw \in ScopePlans :
          Resume(AfterPlan([Cur EXCEPT !.turn[t].planFailed = ~ok], t,
                           planResponse(ok, raw)))

UrlReturns(t) ==
    /\ turn[t].pc = "url"
    /\ \E ok \in BOOLEAN : Resume(AfterUrl(Cur, t, ok))

MoleculeReturns(t) ==
    /\ turn[t].pc = "mol"
    /\ \E ok \in BOOLEAN : Resume(AfterMolecule(Cur, t, ok))

CodeReturns(t) ==
    /\ turn[t].pc = "code"
    /\ \E ok \in BOOLEAN : Resume(AfterCode(Cur, t, ok))

StreamOpens(t) ==
    /\ turn[t].pc = "open"
    /\ \E ok \in BOOLEAN : Resume(AfterOpen(Cur, t, ok))

\* the texts the next chunk of the stream of t can carry
ChunkChoices(t) ==
    IF scope.responses = "titled"
    THEN NextPieces(TitledResponses, turn[t].finalModelResponse)
    ELSE scope.texts

Chunk(t) ==
    /\ turn[t].pc = "stream"
    /\ turn[t].chunks < scope.chunks
    /\ \E text \in ChunkChoices(t), usage \in scope.usage, sources \in scope.sources :
          Resume(OnChunk(Cur, t, text, usage, sources))

StreamEnds(t) ==
    /\ turn[t].pc = "stream"
    /\ Resume(AfterLoop(Cur, t))

StreamFails(t) ==
    /\ turn[t].pc = "stream"
    /\ Resume(Catch(Cur, t))

\* the watchdog callback, were it also to end the loading state
LongToolUseFiresAndStops(t) ==
    /\ turn[t].longToolUseTimer = "armed"
    /\ Resume([Cur EXCEPT !.isLongToolUse = TRUE, !.isLoading = FALSE,
                          !.turn[t].longToolUseTimer = "fired"])

\* the callback of the 20 s timeout
LongToolUseFires(t) ==
    /\ turn[t].longToolUseTimer = "armed"
    /\ Resume(Upd([Cur EXCEPT !.isLongToolUse = TRUE,
                              !.turn[t].longToolUseTimer = "fired"],
                  turn[t].conv, LET prev == Messages(turn[t].conv) IN
                     IF LastIsModel(prev)
                     THEN SetLast(prev, [Last(prev) EXCEPT !.isLongToolUse = TRUE])
                     ELSE prev))

\* the callback of the thinking interval
ThinkingTick(t) ==
    /\ t \in thinkingTimers
    /\ Resume(Upd(Cur, turn[t].conv, LET prev == Msgs(Cur, turn[t].conv) IN
                     IF LastIsModel(prev)
                     THEN SetLast(prev, [Last(prev) EXCEPT !.thinkingDuration = TRUE])
                     ELSE prev))

\* the callback of the elapsed-time interval
ResponseTick(t) ==
    /\ t \in responseTimers
    /\ Resume(Cur)

\* App.handleRequestCancelStream
RequestCancel ==
    /\ isLoading
    /\ isStopConfirmOpen' = TRUE
    /\ rejected' = FALSE
    /\ UNCHANGED <<apiKey, scope, handlerVars>>

\* App.onConfirmCancelStream
ConfirmCancel ==
    /\ isStopConfirmOpen
    /\ Commit(handleCancelStream(Cur))
    /\ isStopConfirmOpen' = FALSE
    /\ rejected' = FALSE
    /\ UNCHANGED <<apiKey, scope>>

\* the dialog's onClose
CloseStopConfirm ==
    /\ isStopConfirmOpen
    /\ isStopConfirmOpen' = FALSE
    /\ rejected' = FALSE
    /\ UNCHANGED <<apiKey, scope, handlerVars>>

\* App.resetStateForNewChat
resetStateForNewChat(s) ==
    [clearThinkingIntervals([s EXCEPT !.error = FALSE])
        EXCEPT !.isLoading = FALSE, !.isThinking = FALSE, !.isSearchingWeb = FALSE]

\* App.onNewChat
NewChat ==
    /\ FreeConvs # {}
    /\ Resume(resetStateForNewChat(
           [Cur EXCEPT !.conversations[FreshConv] = NewConversation,
                       !.activeConversationId = FreshConv]))

\* App.onSelectConversation
SelectConversation(c) ==
    /\ conversations[c].exists
    /\ Resume(resetStateForNewChat([Cur EXCEPT !.activeConversationId = c]))

\* App.handleSetApiKey
SetApiKey ==
    /\ ~apiKey
    /\ apiKey' = TRUE
    /\ rejected' = FALSE
    /\ UNCHANGED <<isStopConfirmOpen, scope, handlerVars>>

\* the answers of the memory extraction the scope draws from: at most one
\* update and at most two new facts, over the facts "f" and "g"
ScopeMemoryResults ==
    LET facts == {"f", "g"}
        updates == {<<>>} \cup {<<[old_memory |-> a, new_memory |-> b]>> :
                                   a \in facts, b \in facts}
        news == {<<>>} \cup {<<a>> : a \in facts}
                       \cup {<<a, b>> : a \in facts, b \in facts}
    IN IF scope.memoryResults = "every"
       THEN {[newMemories |-> n, updatedMemories |-> u] : n \in news, u \in updates}
       ELSE {[newMemories |-> <<"g">>, updatedMemories |-> <<>>]}

\* the return of the extraction, were the flagged message added to the list
\* instead of replacing the last one
MemoryWriterReturnsAppending(w, memoryResult) ==
    /\ w \in pending /\ w.kind = "memory"
    /\ LET m == MemoryUpdate(w.ltm, memoryResult)
           s0 == [Cur EXCEPT !.pending = @ \ {w}]
       IN Resume(IF m.memoryWasModified
                 THEN Upd([s0 EXCEPT !.ltm = m.ltm], w.conv,
                          LET prev == Msgs(s0, w.conv) IN
                          IF LastIsModel(prev)
                          THEN Append(prev, [Last(prev) EXCEPT !.memoryUpdated = TRUE])
                          ELSE prev)
                 ELSE s0)

\* updateMemory(...).then(...): the extraction of the writer w returns
MemoryWriterReturns(w, memoryResult) ==
    /\ w \in pending /\ w.kind = "memory"
    /\ LET m == MemoryUpdate(w.ltm, memoryResult)
           s0 == [Cur EXCEPT !.pending = @ \ {w}]
       IN Resume(IF m.memoryWasModified
                 THEN Upd([s0 EXCEPT !.ltm = m.ltm], w.conv,
                          LET prev == Msgs(s0, w.conv) IN
                          IF LastIsModel(prev)
                          THEN SetLast(prev, [Last(prev) EXCEPT !.memoryUpdated = TRUE])
                          ELSE prev)
                 ELSE s0)

\* generateConvoSummaries(...).then(...): the summaries of the writer w are
\* appended, numbered from its startingSerialNumber; none when the call failed
SummaryWriterReturns(w, ok) ==
    /\ w \in pending /\ w.kind = "summary"
    /\ LET newSummaries ==
               IF ok
               THEN [j \in 1..Len(w.convos) |->
                        [serialNumber |-> w.startingSerialNumber + (j - 1) + 1,
                         userMessageId |-> w.convos[j][1],
                         modelMessageId |-> w.convos[j][2]]]
               ELSE <<>>
       IN Resume([Cur EXCEPT !.pending = @ \ {w},
                             !.conversations[w.conv].summaries = @ \o newSummaries])

\* processAndSaveCode(...).then(...): the snippet of the writer w is stored
CodeWriterReturns(w) ==
    /\ w \in pending /\ w.kind = "code"
    /\ Resume([Cur EXCEPT !.pending = @ \ {w}, !.codeMemory = @ + 1])

\* the steps of the Sends, of their timers and of the stop dialog
TurnStep ==
    \/ \E i \in ScopeInputs : Send(i)
    \/ \E t \in Turns : PlanReturns(t)
    \/ \E t \in Turns : UrlReturns(t)
    \/ \E t \in Turns : MoleculeReturns(t)
    \/ \E t \in Turns : CodeReturns(t)
    \/ \E t \in Turns : StreamOpens(t)
    \/ \E t \in Turns : Chunk(t)
    \/ \E t \in Turns : StreamEnds(t)
    \/ \E t \in Turns : StreamFails(t)
    \/ \E t \in Turns : LongToolUseFires(t)
    \/ \E t \in Turns : ThinkingTick(t)
    \/ \E t \in Turns : ResponseTick(t)
    \/ RequestCancel
    \/ ConfirmCancel
    \/ CloseStopConfirm
    \/ SetApiKey

Next ==
    \/ TurnStep
    \/ \E c \in Convs : SelectConversation(c)

Spec == Init /\ [][Next]_vars

InitTurn == scope = TurnScope /\ Start

NextTurn ==
    \/ TurnStep
    \/ NewChat
    \/ \E c \in Convs : SelectConversation(c)

InitTitle == scope = TitleScope /\ Start
SpecTitle == InitTitle /\ [][NextTurn]_vars

InitTokens == scope = TokenScope /\ Start
SpecTokens == InitTokens /\ [][NextTurn]_vars

SpecTurn == InitTurn /\ [][NextTurn]_vars

InitSwitch == scope = SwitchScope /\ Start

\* the steps of SpecSwitch: those a Send of a plain prompt can take, the
\* cancel dialog and the switch of conversation
NextSwitch ==
    \/ \E i \in ScopeInputs : Send(i)
    \/ \E t \in Turns : PlanReturns(t)
    \/ \E t \in Turns : CodeReturns(t)
    \/ \E t \in Turns : StreamOpens(t)
    \/ \E t \in Turns : Chunk(t)
    \/ \E t \in Turns : StreamEnds(t)
    \/ \E t \in Turns : StreamFails(t)
    \/ \E t \in Turns : ThinkingTick(t)
    \/ \E t \in Turns : ResponseTick(t)
    \/ RequestCancel
    \/ ConfirmCancel
    \/ CloseStopConfirm
    \/ SetApiKey
    \/ \E c \in Convs : SelectConversation(c)

SpecSwitch == InitSwitch /\ [][NextSwitch]_vars

InitWriters == scope = WriterScope /\ Start

\* the steps of SpecWriters: those of a Send or a retry of a plain prompt
\* that completes, and the returns of the background writers
NextWriters ==
    \/ \E i \in ScopeInputs : Send(i)
    \/ \E i \in ScopeInputs : Retry(i.tool)
    \/ \E t \in Turns : PlanReturns(t)
    \/ \E t \in Turns : StreamOpens(t)
    \/ \E t \in Turns : Chunk(t)
    \/ \E t \in Turns : StreamEnds(t)
    \/ SetApiKey
    \/ \E w \in pending, memoryResult \in ScopeMemoryResults :
          MemoryWriterReturns(w, memoryResult)
    \/ \E w \in pending, ok \in BOOLEAN : SummaryWriterReturns(w, ok)
    \/ \E w \in pending : CodeWriterReturns(w)

SpecWriters == InitWriters /\ [][NextWriters]_vars

InitChunks == scope = ChunkScope /\ Start
SpecChunks == InitChunks /\ [][NextTurn]_vars

\* The scope of SpecRetry: that of SpecStored on a stored conversation of one
\* turn, with handleRetry called in any state
RetryScope == [StoredScope EXCEPT !.retry = "any", !.histories = "short"]

InitStored == scope = StoredScope /\ Start

NextStored ==
    \/ NextTurn
    \/ \E i \in ScopeInputs : Retry(i.tool)

SpecStored == InitStored /\ [][NextStored]_vars

InitRetry == scope = RetryScope /\ Start

SpecRetry == InitRetry /\ [][NextStored]_vars

\* ------------------------------------------------------------------ properties
\* the message carries one of the fields handleCancelStream strips; a thoughts
\* or searchPlan field counts when it holds steps
CarriesTransient(m) ==
    \/ m.isPlanning \/ m.toolInUse \/ m.isLongToolUse
    \/ m.thoughts = "steps" \/ m.searchPlan = "steps"
    \/ m.isAnalyzingImage \/ m.isAnalyzingFile

\* the message shows one of the four animations
CarriesFlag(m) ==
    m.isPlanning \/ m.toolInUse \/ m.isAnalyzingImage \/ m.isAnalyzingFile

\* the Sends accepted on conversation c that have not run their finally block
InFlightOn(c) == {t \in Turns : InFlight(t) /\ turn[t].conv = c}

\* a step of the Send t itself: its resumption after one of its awaits
SendResumes(t) ==
    \/ PlanReturns(t) \/ UrlReturns(t) \/ MoleculeReturns(t) \/ CodeReturns(t)
    \/ StreamOpens(t) \/ Chunk(t) \/ StreamEnds(t) \/ StreamFails(t)

\* handleCancelStream runs while a Send is in flight on the active conversation,
\* whose last message is the model's
CancelsInFlightMessage ==
    /\ ConfirmCancel
    /\ activeConversationId # NoConv
    /\ InFlightOn(activeConversationId) # {}
    /\ LastIsModel(Messages(activeConversationId))

\* C1: at most one accepted Send is executing on a conversation at any time:
\* a Send is accepted only when every earlier Send on the conversation has
\* run its finally block.
C1_OneTurnInFlight == \A c \in Convs : Cardinality(InFlightOn(c)) <= 1

\* C2: a Send that has been cancelled leaves the messages and the title of
\* its conversation as they are whenever it resumes after an await.
C2_CancelledSendIsSilent ==
    [][\A t \in Turns :
          (turn[t].cancelled /\ SendResumes(t))
              => conversations'[turn[t].conv] = conversations[turn[t].conv]]_vars

\* C3, as stated: cancelling while the in-flight model message holds the text T
\* leaves it with T followed by the stop notice when T is not empty, and with
\* the stop notice alone when T is empty.
C3_TextKeptWhole ==
    [][CancelsInFlightMessage =>
          LET T == Last(Messages(activeConversationId)).content IN
          Last(conversations'[activeConversationId].messages).content =
              IF T # <<>> THEN T \o <<"\n", "\n">> \o StopNotice ELSE StopNotice]_vars

\* C3, amended: handleCancelStream leaves the in-flight model message with T
\* stripped of its leading and trailing whitespace and followed by the stop
\* notice, or with the stop notice alone when T is empty or all whitespace;
\* it adds no message and changes the content of no other message.
C3_TextKeptTrimmed ==
    [][CancelsInFlightMessage =>
          LET before == Messages(activeConversationId)
              after == conversations'[activeConversationId].messages
              T == Last(before).content
          IN /\ Len(after) = Len(before)
             /\ Last(after).content =
                    IF Trim(T) # <<>> THEN Trim(T) \o <<"\n", "\n">> \o StopNotice
                    ELSE StopNotice
             /\ \A k \in 1..(Len(before) - 1) : after[k].content = before[k].content]_vars

\* a cancelled turn whose streamed text "a " was cut to "a" before the notice
C3_Witness ==
    \E t \in Turns :
        /\ turn[t].cancelled
        /\ \E k \in 1..Len(Messages(turn[t].conv)) :
              Messages(turn[t].conv)[k].content = <<"a", "\n", "\n">> \o StopNotice

\* C4: right after handleCancelStream isLoading is false, the tickers of the
\* cancelled turns are stopped and no message of the conversation carries a
\* transient field; and once a cancelled Send has returned, still none does.
C4_CancelClearsTransient ==
    /\ [][ConfirmCancel =>
             /\ ~isLoading'
             /\ \A t \in InFlightOn(activeConversationId) :
                   t \notin thinkingTimers' /\ t \notin responseTimers'
             /\ activeConversationId # NoConv =>
                   LET after == conversations'[activeConversationId].messages IN
                   \A k \in 1..Len(after) : ~CarriesTransient(after[k])]_vars
    /\ [](\A t \in Turns :
             (turn[t].pc = "done" /\ turn[t].cancelled) =>
                 \A k \in 1..Len(Messages(turn[t].conv)) :
                     ~CarriesTransient(Messages(turn[t].conv)[k]))

\* C5: no background writer is dispatched by a turn that was cancelled.
C5_NoWriterForCancelled == \A w \in dispatched : ~turn[w[1]].cancelled

C7_NoPlanningLeft ==
    \A c \in Convs :
        ((\E t \in Turns : turn[t].pc = "done" /\ turn[t].conv = c) /\ InFlightOn(c) = {})
            => \A k \in 1..Len(Messages(c)) :
                  ~Messages(c)[k].isPlanning /\ ~Messages(c)[k].toolInUse

\* C8: after a Send has returned by normal stream completion, no model message
\* of its conversation carries a transient field.
C8_CompletedIsSettled ==
    \A t \in Turns :
        turn[t].exit = "complete" =>
            \A k \in 1..Len(Messages(turn[t].conv)) :
                Messages(turn[t].conv)[k].role = "model"
                    => ~CarriesTransient(Messages(turn[t].conv)[k])

\* C9: at most one message of a conversation shows an animation (isPlanning,
\* toolInUse, isAnalyzingImage, isAnalyzingFile) at any time.
C9_OneFlaggedMessage ==
    \A c \in Convs :
        Cardinality({k \in 1..Len(Messages(c)) : CarriesFlag(Messages(c)[k])}) <= 1

\* C10: once a turn has been cancelled or its Send has returned, its
\* elapsed-time interval is cleared and no callback of its watchdog or of its
\* thinking interval runs.
C10_TimersTornDown ==
    /\ [](\A t \in Turns :
             (turn[t].cancelled \/ turn[t].pc = "done") => t \notin responseTimers)
    /\ [][\A t \in Turns :
             (turn[t].cancelled \/ turn[t].pc = "done")
                 => ~LongToolUseFires(t) /\ ~ThinkingTick(t)]_vars

\* the texts a failed turn leaves in its model message
Apologies == {ErrorPrefix, ToolErrorText, MoleculeErrorText}

\* the model messages of msgs that hold an apology
ApologyMessages(msgs) ==
    {k \in 1..Len(msgs) : msgs[k].role = "model" /\ msgs[k].content \in Apologies}

\* this step is the return of the Send t, not cancelled, by the exit path exit
ReturnsBy(t, exit) ==
    /\ InFlight(t) /\ ~turn[t].cancelled
    /\ turn'[t].pc = "done" /\ turn'[t].exit = exit

ModelCalls == {"search", "chat", "chatThinking"}

\* how many times call was issued in the log calls
Issued(calls, call) == Cardinality({k \in 1..Len(calls) : calls[k] = call})

\* the status signals of a controller with nothing to show: not loading, not
\* thinking, not searching, no long tool use
StatusIdle == ~isLoading /\ ~isThinking /\ ~isSearchingWeb /\ ~isLongToolUse

\* C12: a tool failure is terminal. On the step where a Send returns because
\* the URL fetch or the molecule lookup failed, the last message of its
\* conversation is the model's and holds the apology, and the status signals
\* are those of Idle; and a turn that ended that way is done, has issued no
\* model call, and issued each fetch at most once.
C12_ToolFailureIsTerminal ==
    /\ [](\A t \in Turns : turn[t].exit = "toolError" =>
            /\ turn[t].pc = "done"
            /\ \A k \in 1..Len(turn[t].calls) : turn[t].calls[k] \notin ModelCalls
            /\ Issued(turn[t].calls, "url") <= 1
            /\ Issued(turn[t].calls, "molecule") <= 1)
    /\ [][\A t \in Turns :
            (InFlight(t) /\ turn'[t].exit = "toolError") =>
                LET after == conversations'[turn[t].conv].messages IN
                /\ LastIsModel(after)
                /\ Last(after).content \in {ToolErrorText, MoleculeErrorText}
                /\ StatusIdle']_vars

\* a Send has returned after its URL fetch failed
C12_Witness ==
    \E t \in Turns :
        /\ turn[t].exit = "toolError" /\ turn[t].calls = <<"url">>
        /\ Last(Messages(turn[t].conv)).content = ToolErrorText
        /\ StatusIdle

\* the Send t was made with the urlReader tool selected and no URL
UrlReaderWithoutUrl(t) == turn[t].tool = "urlReader" /\ ~turn[t].url

\* C13, as stated: a turn with the urlReader tool selected and no URL never has
\* a network call outstanding, the planner's included.
C13_NoNetworkCall ==
    \A t \in Turns : UrlReaderWithoutUrl(t) => ~InFlight(t)

\* C13, amended: such a turn awaits the planner's call and no other. When the
\* planner's call returns the Send returns in the same step with an empty log
\* of calls (no URL fetch, no molecule fetch, no code lookup, no model call):
\* silently if the turn was cancelled meanwhile, and otherwise with the
\* tool-failure text in its settled model message and the status signals of
\* Idle. A returned turn never moves again.
C13_OnlyThePlannerCall ==
    /\ [][\A t \in Turns :
            (UrlReaderWithoutUrl(t) /\ turn[t].pc = "plan"
                                   /\ turn'[t].pc # "plan") =>
                LET after == conversations'[turn[t].conv].messages IN
                /\ turn'[t].pc = "done" /\ turn'[t].calls = <<>>
                /\ IF isCancelledRef
                   THEN turn'[t].exit = "cancelled"
                   ELSE /\ turn'[t].exit = "toolError"
                        /\ LastIsModel(after)
                        /\ Last(after).content = ToolErrorText
                        /\ ~CarriesTransient(Last(after))
                        /\ StatusIdle']_vars
    /\ [][\A t \in Turns : turn[t].pc = "done" => turn'[t] = turn[t]]_vars

\* a Send with the urlReader tool and no URL has returned with the tool failure
\* before any fetch or model call
C13_Witness ==
    \E t \in Turns :
        /\ turn[t].exit = "toolError" /\ turn[t].calls = <<>>
        /\ Last(Messages(turn[t].conv)).content = ToolErrorText

\* C14: when the planner's call fails, planResponse returns the fallback plan
\* (web search on, thinking off, every other flag off, no thoughts, no search
\* plan) whatever the call would have answered, and the failure is not
\* surfaced: on the step where the Send resumes after a failed planner call,
\* and is not cancelled, the error state stays clear, the Send takes no exit
\* and no apology is written; with no tool selected and at least a prompt, it
\* goes on to the web-search model call without a code lookup.
C14_PlannerFailureFallsBack ==
    /\ [](\A raw \in RawPlans :
            planResponse(FALSE, raw) =
                [needsWebSearch |-> TRUE, isUrlReadRequest |-> FALSE,
                 isMoleculeRequest |-> FALSE, needsThinking |-> FALSE,
                 needsCodeContext |-> FALSE, thoughts |-> FALSE,
                 searchPlan |-> FALSE])
    /\ [][\A t \in Turns :
            (turn[t].pc = "plan" /\ turn'[t].planFailed) =>
                LET after == conversations'[turn[t].conv].messages IN
                /\ ~error' /\ turn'[t].exit = "none"
                /\ ApologyMessages(after) = {}
                /\ turn[t].tool = "smart" =>
                      /\ turn'[t].pc = "open" /\ turn'[t].calls = <<"search">>
                      /\ isSearchingWeb' /\ ~isThinking']_vars

\* a Send whose planner call failed awaits the web-search model call, with the
\* error state clear
C14_Witness ==
    \E t \in Turns :
        /\ turn[t].planFailed /\ turn[t].pc = "open"
        /\ turn[t].calls = <<"search">> /\ isSearchingWeb /\ ~error

\* the turn has fetched a URL or molecule data
RanSideChannel(t) ==
    Issued(turn[t].calls, "url") > 0 \/ Issued(turn[t].calls, "molecule") > 0

\* C15: thinking and tools exclude each other. A plan of a successful planner
\* call with needsWebSearch, isUrlReadRequest or isMoleculeRequest set has
\* needsThinking false and no thoughts; and while a turn's model call is
\* outstanding, if web search is enabled or the turn fetched a URL or molecule
\* data, then thinking is disabled, the call is not a thinking chat and the
\* thinking ticker of the turn is not running. No turn ever logs both a fetch
\* and a thinking chat.
C15_ThinkingExcludesTools ==
    /\ \A raw \in RawPlans :
          (raw.needsWebSearch \/ raw.isUrlReadRequest \/ raw.isMoleculeRequest) =>
              /\ ~planResponse(TRUE, raw).needsThinking
              /\ ~planResponse(TRUE, raw).thoughts
    /\ \A t \in Turns :
          (turn[t].pc = "open" /\ (turn[t].isWebSearchEnabled \/ RanSideChannel(t))) =>
              /\ ~turn[t].isThinkingEnabled
              /\ Issued(turn[t].calls, "chatThinking") = 0
              /\ t \notin thinkingTimers
    /\ \A t \in Turns : RanSideChannel(t) => Issued(turn[t].calls, "chatThinking") = 0

\* a turn awaits a chat without thinking after its molecule lookup
C15_Witness ==
    \E t \in Turns :
        /\ turn[t].pc = "open" /\ turn[t].calls = <<"molecule", "chat">>
        /\ ~turn[t].isThinkingEnabled /\ ~turn[t].isWebSearchEnabled

\* C16: a manual tool selection always overrides the planner. On the step where
\* a Send resumes after the planner and goes on, its flags are those of the
\* selected tool: urlReader - URL read on, web search off, thinking off;
\* webSearch - web search on, thinking off, URL read off, image-analysis flow
\* off; thinking - thinking on, web search off, URL read off; chemistry -
\* molecule lookup on, web search off, thinking off.
C16_ToolOverridesPlanner ==
    [][\A t \in Turns :
          (turn[t].pc = "plan" /\ turn'[t].pc \notin {"plan", "done"}) =>
              LET tool == turn[t].tool
                  after == turn'[t]
                  urlRead == Issued(after.calls, "url") > 0
                  molecule == Issued(after.calls, "molecule") > 0
              IN CASE tool = "urlReader" ->
                        urlRead /\ ~after.isWebSearchEnabled /\ ~after.isThinkingEnabled
                   [] tool = "webSearch" ->
                        /\ after.isWebSearchEnabled /\ ~after.isThinkingEnabled
                        /\ ~urlRead /\ ~after.isImageAnalysisRequest
                   [] tool = "thinking" ->
                        after.isThinkingEnabled /\ ~after.isWebSearchEnabled /\ ~urlRead
                   [] tool = "chemistry" ->
                        molecule /\ ~after.isWebSearchEnabled /\ ~after.isThinkingEnabled
                   [] OTHER -> TRUE]_vars

\* C17: a turn with an image or a file attached runs with thinking disabled,
\* whatever the planner answered and whichever tool is selected: it never
\* starts a chat session with thinking on, and its thinking ticker never runs.
C17_AttachmentDisablesThinking ==
    \A t \in Turns :
        (turn[t].isImageAnalysisRequest \/ turn[t].isFileAnalysisRequest) =>
            /\ Issued(turn[t].calls, "chatThinking") = 0
            /\ t \notin thinkingTimers

\* C18: a turn runs at most one side-channel capability: it never issues both a
\* URL fetch and a molecule-data fetch.
C18_OneSideChannel ==
    \A t \in Turns :
        ~(Issued(turn[t].calls, "url") > 0 /\ Issued(turn[t].calls, "molecule") > 0)

\* the least k with CharsPerToken * k >= n
CeilOfQuarter(n) ==
    CHOOSE k \in 0..n : CharsPerToken * k >= n /\ CharsPerToken * (k - 1) < n

\* this step is the return of the Send t after a whole stream that reported
\* usage, with the model's message last
CompletesWithUsage(t) ==
    /\ InFlight(t) /\ turn'[t].exit = "complete"
    /\ turn[t].usageMetadata.present
    /\ LastIsModel(conversations'[turn[t].conv].messages)

\* C19: the token annotation follows the formula. When a Send completes with a
\* usage report, the last message gets outputTokens = candidatesTokenCount and:
\* with toolUsed false, inputTokens = ceil(len(prompt) / 4) and systemTokens =
\* promptTokenCount - ceil(len(prompt) / 4) when that is positive, absent
\* otherwise; with toolUsed true, inputTokens = promptTokenCount and
\* systemTokens absent. A stored systemTokens is never zero or negative.
C19_TokenAnnotationFormula ==
    [][\A t \in Turns :
          CompletesWithUsage(t) =>
              LET m == Last(conversations'[turn[t].conv].messages).tokens
                  total == turn[t].usageMetadata.promptTokenCount
                  estimate == CeilOfQuarter(Len(turn[t].prompt))
              IN /\ m.present
                 /\ m.outputTokens = turn[t].usageMetadata.candidatesTokenCount
                 /\ \A n \in m.systemTokens : n > 0
                 /\ IF toolUsed(turn[t])
                    THEN m.inputTokens = total /\ m.systemTokens = {}
                    ELSE /\ m.inputTokens = estimate
                         /\ m.systemTokens = IF total - estimate > 0
                                             THEN {total - estimate} ELSE {}]_vars

\* a completed turn without a tool, with a one-character prompt and two prompt
\* tokens reported: one input token shown, one system token
C19_Witness ==
    \E t \in Turns :
        /\ turn[t].exit = "complete" /\ turn[t].calls = <<"chat">>
        /\ LET m == Last(Messages(turn[t].conv)).tokens IN
           m.present /\ m.inputTokens = 1 /\ m.systemTokens = {1}

\* the user's message of the conversation carries an image or a file
HasAttachment(msgs) ==
    \E k \in 1..Len(msgs) : msgs[k].role = "user" /\ (msgs[k].images \/ msgs[k].file)

\* C20, as stated: toolUsed is true for a completed turn exactly when it
\* fetched a URL or molecule data, had an image or a file attached, or issued
\* the web-search model call.
C20_ToolUsedIffAnyTool ==
    [][\A t \in Turns :
          CompletesWithUsage(t) =>
              (toolUsed(turn[t]) <=>
                  \/ Issued(turn[t].calls, "url") > 0
                  \/ Issued(turn[t].calls, "molecule") > 0
                  \/ HasAttachment(conversations'[turn[t].conv].messages)
                  \/ Issued(turn[t].calls, "search") > 0)]_vars

\* C20, amended: toolUsed is true for a completed turn exactly when it fetched
\* a URL, had an image or a file attached, or issued the web-search model
\* call; a molecule lookup does not count.  When it is true the input tokens
\* shown are promptTokenCount, and when it is false they are the estimate of
\* the prompt.
C20_ToolUsedIffUrlAttachmentOrSearch ==
    [][\A t \in Turns :
          CompletesWithUsage(t) =>
              LET after == conversations'[turn[t].conv].messages
                  used == \/ Issued(turn[t].calls, "url") > 0
                          \/ HasAttachment(after)
                          \/ Issued(turn[t].calls, "search") > 0
              IN /\ toolUsed(turn[t]) <=> used
                 /\ Last(after).tokens.inputTokens =
                        IF used THEN turn[t].usageMetadata.promptTokenCount
                        ELSE CeilOfQuarter(Len(turn[t].prompt))]_vars

\* a turn completed after a molecule lookup alone, and its message shows the
\* estimate of the prompt and a system-token count
C20_Witness ==
    \E t \in Turns :
        /\ turn[t].exit = "complete" /\ turn[t].calls = <<"molecule", "chat">>
        /\ ~HasAttachment(Messages(turn[t].conv))
        /\ LET m == Last(Messages(turn[t].conv)).tokens IN
           m.present /\ m.systemTokens # {}

\* the text begins with "TITLE:" and its first line is complete
HasTitleLine(text) ==
    StartsWith(text, TitleKeyword) /\ Includes(Drop(text, Len(TitleKeyword)), "\n")

\* <t> and <body> of a text "TITLE:<t>\n<body>"
TitleOf(text) == LineRun(Drop(text, Len(TitleKeyword)))
BodyOf(text) == Drop(text, Len(TitleKeyword) + Len(TitleOf(text)) + 1)

\* this step is the Send t processing one more chunk of its stream
ProcessesChunk(t) ==
    /\ turn[t].pc = "stream" /\ turn'[t].pc = "stream"
    /\ turn'[t].chunks = turn[t].chunks + 1

\* C21: on the first turn of a conversation, once a processed chunk leaves the
\* accumulated text as "TITLE: <t>\n<body>" (t not blank), the conversation's
\* title is trim(t) and the content shown is <body>; a chunk processed when the
\* title line was already complete leaves the title as it is.
C21_TitleCommitted ==
    [][\A t \in Turns :
          (ProcessesChunk(t) /\ turn[t].isFirstTurnInConversation
           /\ HasTitleLine(turn'[t].finalModelResponse)
           /\ Trim(TitleOf(turn'[t].finalModelResponse)) # <<>>) =>
              LET c == turn[t].conv
                  text == turn'[t].finalModelResponse
              IN /\ conversations'[c].title = Trim(TitleOf(text))
                 /\ Last(conversations'[c].messages).content = BodyOf(text)
                 /\ HasTitleLine(turn[t].finalModelResponse) =>
                        conversations'[c].title = conversations[c].title]_vars

\* the third chunk of a first turn has arrived after the title line was
\* complete: the title is "xy" and the content the body so far
C21_Witness ==
    \E t \in Turns :
        /\ turn[t].pc = "stream" /\ turn[t].chunks = MaxPieces
        /\ turn[t].isFirstTurnInConversation
        /\ turn[t].finalModelResponse =
               TitleKeyword \o <<" ", "x", "y", " ", "\n", "b", "\n", "c">>
        /\ conversations[turn[t].conv].title = <<"x", "y">>
        /\ Last(Messages(turn[t].conv)).content = <<"b", "\n", "c">>

\* ---------------------------------------------------------------- C22

C23_SummariesEveryTwenty ==
    [][\A t \in Turns :
          ReturnsBy(t, "complete") =>
             LET count == Len(conversations'[turn[t].conv].messages)
             IN (<<t, "summary", 1>> \in dispatched')
                   <=> (count > 0 /\ count % SummaryEvery = 0)]_vars

\* ---------------------------------------------------------------- C24

\* C24: when the stream of a Send that was not cancelled completes, on a
\* conversation that existed or on one the Send created, the Send returns in
\* that step with its background writers dispatched: the memory update when
\* the response without its title line is not blank, and one code extraction
\* for each fenced code block of it.
C24_WritersDispatchedOnCompletion ==
    [][\A t \in Turns :
          ReturnsBy(t, "complete") =>
             LET response == StripTitle(turn[t].finalModelResponse)
             IN /\ Trim(response) # <<>> => <<t, "memory", 1>> \in dispatched'
                /\ \A k \in 1..CountOf(response, CodeBlock) :
                      <<t, "code", k>> \in dispatched']_vars

\* ---------------------------------------------------------------- C25

\* C25: turn state is scoped per conversation. While a turn runs on a
\* conversation other than the active one, an accepted Send and a confirmed
\* Cancel on the active conversation leave that turn and its messages as they
\* are; and a turn returns through a cancellation check only if a Cancel was
\* confirmed on its own conversation.
C25_TurnsScopedPerConversation ==
    /\ [][\A t \in Turns :
             /\ InFlight(t)
             /\ turn[t].conv # activeConversationId
             /\ activeConversationId' = activeConversationId
             /\ \/ isStopConfirmOpen /\ isCancelledRef' /\ ~isCancelledRef
                \/ \E u \in Turns : turn[u].pc = "idle" /\ turn'[u].pc = "plan"
             => /\ turn'[t] = turn[t]
                /\ conversations'[turn[t].conv] = conversations[turn[t].conv]]_vars
    /\ [](\A t \in Turns :
             turn[t].pc = "done" /\ turn[t].exit = "cancelled" => turn[t].cancelled)

\* ---------------------------------------------------------------- C26

\* C26: the watchdog of a turn fires at most once, and its firing only raises
\* the long-tool-use flag, of the controller and of the message it marks:
\* isLoading, the cancellation flag, the error state, the number of messages
\* and every other field of every message stay as they are, and the turn
\* stays where it is.
C26_WatchdogOnlyFlipsFlag ==
    [][\A t \in Turns :
          /\ turn[t].longToolUseTimer = "armed" /\ turn'[t].longToolUseTimer = "fired"
             => /\ isLongToolUse'
                /\ isLoading' = isLoading
                /\ isCancelledRef' = isCancelledRef
                /\ error' = error
                /\ turn'[t].pc = turn[t].pc
                /\ \A c \in Convs :
                      LET prev == conversations[c].messages
                          after == conversations'[c].messages
                      IN /\ Len(after) = Len(prev)
                         /\ \A k \in 1..Len(prev) :
                               [after[k] EXCEPT !.isLongToolUse = prev[k].isLongToolUse]
                                  = prev[k]
          /\ turn[t].longToolUseTimer \in {"fired", "cleared"}
             => turn'[t].longToolUseTimer # "armed"]_vars

\* the watchdog has fired during a tool call of a turn that is still running
C26_Witness ==
    \E t \in Turns :
        /\ InFlight(t)
        /\ turn[t].longToolUseTimer = "fired"
        /\ isLongToolUse /\ isLoading
        /\ Last(conversations[turn[t].conv].messages).isLongToolUse

\* ---------------------------------------------------------------- C27

\* C27: an accepted Send returns the controller to Idle, with or without a
\* Cancel: at the return of a Send isLoading is false, the elapsed-time and
\* thinking intervals of the turn are stopped and its watchdog is cleared.
C27_SendReturnsToIdle ==
    [][\A t \in Turns :
          InFlight(t) /\ turn'[t].pc = "done" =>
             /\ ~isLoading'
             /\ t \notin responseTimers'
             /\ t \notin thinkingTimers'
             /\ turn'[t].longToolUseTimer # "armed"]_vars

\* ---------------------------------------------------------------- C28

\* C28: the Send appends its model stub in planning state before any network
\* call, and until the Send returns every step of it leaves the number of
\* messages of its conversation as it is and changes no model message but
\* that stub, whose id stays the same: no second model message is created.
C28_UpdatesHitTheStub ==
    [][\A t \in Turns :
          LET prev == conversations[turn'[t].conv].messages
              after == conversations'[turn'[t].conv].messages
          IN /\ turn[t].pc = "idle" /\ turn'[t].pc = "plan"
                => /\ turn'[t].calls = <<>>
                   /\ Last(after).id = turn'[t].planningMessage
                   /\ Last(after).role = "model" /\ Last(after).isPlanning
                   /\ \A k \in 1..Len(prev) : prev[k].id # Last(after).id
             /\ InFlight(t) /\ turn'[t] # turn[t] /\ isCancelledRef' = isCancelledRef
                => /\ Len(after) = Len(prev)
                   /\ \A k \in 1..Len(prev) :
                         after[k] # prev[k] /\ prev[k].role = "model"
                            => /\ prev[k].id = turn[t].planningMessage
                               /\ after[k].id = prev[k].id]_vars

\* ---------------------------------------------------------------- C29

\* C29: a processed chunk leaves the accumulated text as the text before it
\* followed by the chunk's text, and the model message in flight, the last of
\* the conversation, with that whole text as content (without its title line
\* on a first turn) and with the chunk's grounding sources: the content is
\* replaced, the list gets no longer, no chunk text is shown twice.
C29_ChunkOverwritesContent ==
    [][\A t \in Turns :
          ProcessesChunk(t) =>
          \A text \in ChunkChoices(t), usage \in scope.usage, sources \in scope.sources :
             (/\ turn[t].chunks < scope.chunks
              /\ ~isCancelledRef
              /\ Resume(OnChunk(Cur, t, text, usage, sources))) =>
                LET prev == conversations[turn[t].conv].messages
                    after == conversations'[turn[t].conv].messages
                    received == turn[t].finalModelResponse \o text
                IN /\ turn'[t].finalModelResponse = received
                   /\ Len(after) = Len(prev)
                   /\ Last(after).id = Last(prev).id
                   /\ Last(after).role = "model"
                   /\ Last(after).content =
                         IF turn[t].isFirstTurnInConversation
                         THEN StripTitle(received) ELSE received
                   /\ Len(Last(after).content) <= Len(received)
                   /\ Last(after).sources = sources]_vars

\* the third chunk of a stream, one without grounding sources, has been
\* processed: the message shows the whole text so far and no sources
C29_Witness ==
    \E t \in Turns :
        /\ turn[t].pc = "stream" /\ turn[t].chunks = MaxPieces
        /\ LET m == Last(conversations[turn[t].conv].messages)
           IN /\ m.content # <<>>
              /\ m.content = (IF turn[t].isFirstTurnInConversation
                              THEN StripTitle(turn[t].finalModelResponse)
                              ELSE turn[t].finalModelResponse)
              /\ ~m.sources

\* ---------------------------------------------------------------- C30

\* C30: during the stream of a first turn whose response begins with its
\* title line, the content shown after each processed chunk holds no part of
\* that line: it is empty while the line is incomplete, and afterwards it is
\* the text that follows the line.
C30_TitleLineNeverShown ==
    [][\A t \in Turns :
          ProcessesChunk(t) /\ turn[t].isFirstTurnInConversation =>
             LET text == turn'[t].finalModelResponse
                 line == LineRun(text)
             IN Last(conversations'[turn[t].conv].messages).content =
                   IF Len(line) < Len(text) THEN Drop(text, Len(line) + 1)
                   ELSE <<>>]_vars

\* ---------------------------------------------------------------- C31

\* C31: memoryUpdated is set only if the memory update changed long-term
\* memory. When the extraction returns no update that changes a fact of the
\* list and no new fact that is absent from it, the return of the memory
\* writer leaves every message and the long-term memory as they are.
C31_FlagOnlyIfMemoryChanged ==
    [][\A w \in pending, r \in ScopeMemoryResults :
          LET Has(mem) == \E k \in 1..Len(w.ltm) : w.ltm[k] = mem
              updates == r.updatedMemories
          IN (/\ MemoryWriterReturns(w, r)
              /\ \A k \in 1..Len(updates) :
                    Has(updates[k].old_memory)
                       => updates[k].new_memory = updates[k].old_memory
              /\ \A k \in 1..Len(r.newMemories) : Has(r.newMemories[k]))
             => conversations' = conversations /\ ltm' = ltm]_vars

\* ---------------------------------------------------------------- C32

\* C32: the memory update keeps long-term memory free of duplicates. When the
\* fact list has no duplicate, the return of a memory writer created with that
\* list leaves it without duplicate, and every fact that no update names as
\* old_memory stays at its position.
C32_MemoryStaysDuplicateFree ==
    [][\A w \in pending, r \in ScopeMemoryResults :
          (/\ MemoryWriterReturns(w, r)
           /\ w.ltm = ltm
           /\ \A j, k \in 1..Len(ltm) : ltm[j] = ltm[k] => j = k)
          => /\ \A j, k \in 1..Len(ltm') : ltm'[j] = ltm'[k] => j = k
             /\ \A k \in 1..Len(ltm) :
                   (\A u \in 1..Len(r.updatedMemories) :
                       r.updatedMemories[u].old_memory # ltm[k])
                      => Len(ltm') >= k /\ ltm'[k] = ltm[k]]_vars

\* ---------------------------------------------------------------- C33

\* C33: across turns, retries and returns of the summarizer, the summaries of
\* a conversation have pairwise distinct serial numbers and no (user, model)
\* pair is summarised twice.
C33_SummariesNumberedOnce ==
    \A c \in Convs :
        LET summaries == conversations[c].summaries IN
        \A j, k \in 1..Len(summaries) :
            j # k => /\ summaries[j].serialNumber # summaries[k].serialNumber
                     /\ <<summaries[j].userMessageId, summaries[j].modelMessageId>>
                           # <<summaries[k].userMessageId, summaries[k].modelMessageId>>

\* ---------------------------------------------------------------- C34

\* C34: the write-back of a background writer never changes the structure of
\* a message list. On the return of a memory update, of a summary generation
\* or of a code extraction, also while a new turn runs on the conversation,
\* every conversation keeps the number, the order, the ids, the roles and the
\* content of its messages; at most one message changes, and only by having
\* memoryUpdated set.
C34_WritersKeepTheMessages ==
    [][(pending' # pending /\ pending' \subseteq pending)
       => /\ \A c \in Convs :
                LET old == conversations[c].messages
                    new == conversations'[c].messages
                IN /\ Len(new) = Len(old)
                   /\ \A k \in 1..Len(old) :
                         /\ new[k].id = old[k].id
                         /\ new[k].role = old[k].role
                         /\ new[k].content = old[k].content
                         /\ new[k] # old[k]
                               => new[k] = [old[k] EXCEPT !.memoryUpdated = TRUE]
          /\ Cardinality({ck \in UNION {{<<c, k>> : k \in 1..Len(conversations[c].messages)} :
                                         c \in Convs} :
                 conversations'[ck[1]].messages[ck[2]]
                    # conversations[ck[1]].messages[ck[2]]})
                <= 1]_vars

\* a memory update returned while the next turn on the conversation was in
\* flight: the flag is on the message that turn is still to fill
C34_Witness ==
    \E t \in Turns :
        /\ InFlight(t)
        /\ pending = {}
        /\ LET msgs == conversations[turn[t].conv].messages
           IN /\ LastIsModel(msgs)
              /\ Last(msgs).memoryUpdated
              /\ Last(msgs).id = turn[t].planningMessage

\* ---------------------------------------------------------------- C35

\* C35: generationTime is stamped on the model message of a turn exactly when
\* the turn ends by normal completion of the stream. When handleSendMessage
\* returns, the message of the turn has generationTime if and only if the
\* return is the one after the stream; a turn that ends by cancellation, by a
\* missing URL, by a failed fetch, by a failed molecule lookup or in the catch
\* block leaves it unset.
C35_GenerationTimeOnlyOnCompletion ==
    [][\A t \in Turns :
          (turn[t].pc # "done" /\ turn'[t].pc = "done")
          => LET msgs == conversations'[turn'[t].conv].messages
             IN LastIsModel(msgs)
                   => (Last(msgs).generationTime <=> turn'[t].exit = "complete")]_vars

\* ---------------------------------------------------------------- C36

\* C36: a failure after the cancel is not surfaced. On the step where a Send
\* that was cancelled resumes after a failed call (the planner's, the URL
\* fetch, the molecule lookup or the model's stream), the error state stays
\* clear and the messages of its conversation stay as the cancel left them: no
\* apology is written.
C36_NoFailureAfterCancel ==
    [][\A t \in Turns :
          (/\ InFlight(t) /\ turn[t].cancelled
           /\ \/ /\ turn[t].pc = "plan"
                 /\ \E raw \in ScopePlans :
                       Resume(AfterPlan([Cur EXCEPT !.turn[t].planFailed = TRUE], t,
                                        planResponse(FALSE, raw)))
              \/ turn[t].pc = "url" /\ Resume(AfterUrl(Cur, t, FALSE))
              \/ turn[t].pc = "mol" /\ Resume(AfterMolecule(Cur, t, FALSE))
              \/ StreamFails(t))
          => /\ ~error'
             /\ conversations'[turn[t].conv].messages
                   = conversations[turn[t].conv].messages]_vars

\* ---------------------------------------------------------------- C37

\* C37: handleCancelStream is idempotent and does nothing when no turn is in
\* flight. A confirmed stop made while no Send is executing, or while every
\* Send that executes is already cancelled, leaves the number of messages and
\* the content of every message as they are; and a Send accepted afterwards
\* does not start cancelled.
C37_CancelWithoutTurnIsNoOp ==
    /\ [][(ConfirmCancel /\ \A t \in Turns : InFlight(t) => turn[t].cancelled)
          => \A c \in Convs :
                LET old == conversations[c].messages
                    new == conversations'[c].messages
                IN /\ Len(new) = Len(old)
                   /\ \A k \in 1..Len(old) : new[k].content = old[k].content]_vars
    /\ [][\A t \in Turns :
             (turn[t].pc = "idle" /\ InFlight(t)') => ~isCancelledRef']_vars

\* ---------------------------------------------------------------- C39

\* C39: isLoading reflects the turn in flight. In every state, while a Send
\* that was accepted and has not been cancelled is still executing, isLoading
\* is true and the interval of the elapsed-time display of that Send is live:
\* no other action turns them off before the Send settles.
C39_LoadingWhileInFlight ==
    \A t \in Turns :
        (InFlight(t) /\ ~turn[t].cancelled) => isLoading /\ t \in responseTimers

\* ---------------------------------------------------------------- C40

\* C40: the history sent to the model is the message list as it stands just
\* before the turn's own user prompt. On the step where a Send issues its
\* model call, by web search or through a chat session, the history it passes
\* is the list of its conversation without the last two messages, which are
\* the turn's user prompt and the turn's model message: after a retry it has
\* neither the discarded response nor a second copy of the re-sent prompt.
C40_HistoryEndsBeforeThePrompt ==
    [][\A t \in Turns :
          (turn[t].pc # "open" /\ turn'[t].pc = "open")
          => LET msgs == conversations'[turn'[t].conv].messages
             IN /\ Len(msgs) >= 2
                /\ msgs[Len(msgs) - 1].role = "user"
                /\ turn'[t].history = SubSeq(msgs, 1, Len(msgs) - 2)]_vars

\* ---------------------------------------------------------------- C38

\* C38: a retry is all or nothing. When handleRetry is called while a turn is
\* in flight or without a credential, so that the entry guard rejects the
\* Send it issues, the messages of every conversation are left unchanged: the
\* most recent model message is dropped only when a new turn starts.
C38_RejectedRetryKeepsTheList ==
    [][\A i \in ScopeInputs :
          ((isLoading \/ ~apiKey) /\ Retry(i.tool))
          => \A c \in Convs :
                conversations'[c].messages = conversations[c].messages]_vars

====
